---- MODULE Spec2Model ----
(***************************************************************************)
(* Verification model of the DecentralizedWeb node core.                   *)
(*                                                                         *)
(*   - the multi-branch chain store   (src/src/block/chain/mod.rs)         *)
(*   - the per-block wallet fold      (src/lib/src/block/transactions.rs,  *)
(*                                     src/lib/src/transaction/page.rs)    *)
(*                                                                         *)
(* BlockChainBranch (chain/branch.rs), the chunk files (chain/chunk.rs),   *)
(* Block::validate (block/validate.rs) and the Transaction wrapper around  *)
(* Transfer/Page are not part of the sources at hand; they are modelled    *)
(* from the specification and from the way chain/mod.rs uses them.         *)
(*                                                                         *)
(* Block ids in the chain store: BlockChain::add appends a block only when *)
(* block_id == top_index + 1 with top_index an unsigned integer, a fresh   *)
(* branch is selected by longest_branch with top_index 0, top_id() is 0    *)
(* for an empty chain and BlockChain::branch never replays below id 1      *)
(* (max(.., 1)).  So a branch with top_index 0 is empty and the stored     *)
(* blocks of a branch have the ids 1..top_index.                           *)
(***************************************************************************)
EXTENDS Integers, Sequences, FiniteSets, TLC

VARIABLES
    branches,   \* BlockChain.branches: sequence of branches, in creation order
    disk,       \* names of the branch directories under BlockChain.path
    status,     \* "running", or how the process stopped: "panicked" / "hung"
    pre,        \* BlockChain.branches as they were before the last operation
    last,       \* the last chain operation: its kind, its block (the argument of
                \* add, the return value of top), its result
    wallet,     \* one call of Block::update_wallet_status: its arguments and,
                \* once it has returned, its result
    lock,       \* who holds the mutex around the chain: "free" or a thread
    miner,      \* the miner thread: its position, the block it works on, what
                \* it has done
    tx,         \* one call of Transaction::validate_content
    net         \* the network layer: connections, known nodes, packets

vars == <<branches, disk, status, pre, last, wallet, lock, miner, tx, net>>

\* the variables of the chain store, and the variables outside it
chain_vars == <<branches, disk, status, pre, last>>
wallet_vars == <<wallet, tx>>
miner_vars == <<lock, miner>>

(***************************************************************************)
(* Bounds of the model                                                     *)
(***************************************************************************)
\* greatest block id offered to BlockChain::add
MaxId == 5
\* greatest block id at which a second proof-of-work nonce is offered
MaxForkId == 4
\* greatest number of branches kept in memory (forks beyond it are not explored)
MaxBranches == 3
\* blocks per chunk file; stands for chunk::CHUNK_SIZE, whose value is not in
\* the sources at hand
ChunkSize == 3
\* the same three bounds for the runs with long chains
DeepMaxId == 13
DeepForkId == 1
DeepBranches == 3

\* prune depth of BlockChain::prune_branches
PruneDepth == 10
\* number of wallet addresses
MaxAddress == 2
\* greatest transaction id
MaxTxId == 2
\* greatest max_id of the wallet status a fold starts from
MaxStartId == 1
\* greatest Transfer amount and greatest fee, in balance units
MaxAmount == 1
MaxFee == 1
\* greatest Page data_length, in bytes
MaxDataLength == 1
\* greatest number of transactions (Transfers and Pages together) in a block
MaxTxs == 2
\* Block::calculate_reward
BlockReward == 10
\* the miner: greatest block id offered by peers, greatest id with a competing
\* block, number of branches, iterations of miner::mine, blocks broadcast
MinerMaxId == 3
MinerForkId == 1
MinerBranches == 2
MaxMined == 3
MaxSent == 2
\* the network of one node: number of peers, connections opened in all,
\* packets the peers send after their handshake, calls of send by the user
MaxPeers == 2
MaxConns == 3
MaxPackets == 1
MaxSends == 1
MaxSendTos == 1
\* the network of three nodes: connections opened in all
MaxLinks == 3
\* shutdown of a node: peers that dial it, packets that arrive
MaxDials == 2
MaxArrivals == 2
\* greatest magnitude of an f32 amount or fee offered to validate_content
MaxF32 == 1
\* the Transfer of test_block_verify: amount 4.0, fee 1.0
ScenarioAmount == 4
ScenarioFee == 1
\* stands for config::PAGE_CHUNK_SIZE (its value is not in the sources).
\* Balances are counted in units of 1/PAGE_CHUNK_SIZE coin, so that
\* Page::cost = data_length / PAGE_CHUNK_SIZE coins is data_length units.
PageChunkSize == 2

(***************************************************************************)
(* Blocks and hashes                                                       *)
(***************************************************************************)
\* the all-zero hash Block::new uses when the chain has no top
ZeroHash == <<>>
\* a hash that is the hash of no block
BadHash == <<0>>

\* Block::hash: SHA-256 of the serialised block, modelled as the injective
\* encoding of the fields that differ between the blocks of the model
Hash(b) == <<b.block_id, b.prev_hash, b.pow>>

\* Option::None for an Option<Block>
None == [block_id |-> -1, prev_hash |-> ZeroHash, pow |-> 0]

Max(a, b) == IF a >= b THEN a ELSE b

(***************************************************************************)
(* BlockChainBranch                                                        *)
(***************************************************************************)
\* BlockChainBranch::new(path): an empty branch
NewBranch(name) == [name |-> name, top_index |-> 0, blocks |-> <<>>]

\* BlockChainBranch::block(id)
BranchBlock(br, id) == IF id \in DOMAIN br.blocks THEN br.blocks[id] ELSE None

\* BlockChainBranch::top()
BranchTop(br) == IF br.top_index = 0 THEN None ELSE BranchBlock(br, br.top_index)

\* Block::validate_pow: hash(block) <= target; pow 0 stands for a nonce whose
\* hash misses the target
PowValid(b) == b.pow # 0

\* Block::validate(&branch): the block against the history of the branch up to
\* block_id - 1 (proof of work, and prev_hash linkage for a non-genesis block)
Validate(b, br) ==
    /\ PowValid(b)
    /\ b.block_id > 1 =>
          /\ BranchBlock(br, b.block_id - 1) # None
          /\ b.prev_hash = Hash(BranchBlock(br, b.block_id - 1))

\* BlockChainBranch::add(block): validate, id contiguity, append
BranchAdd(br, b) ==
    IF Validate(b, br) /\ b.block_id = br.top_index + 1
    THEN [ok |-> TRUE,
          branch |-> [br EXCEPT !.top_index = b.block_id,
                                !.blocks = [i \in (DOMAIN br.blocks) \cup {b.block_id} |->
                                               IF i = b.block_id THEN b ELSE br.blocks[i]]]]
    ELSE [ok |-> FALSE, branch |-> br]

(***************************************************************************)
(* BlockChain                                                              *)
(***************************************************************************)
\* BlockChain::generate_new_branch_name draws 5 random bytes once and then
\* loops until the name is unused, without drawing again.  Unused names are
\* interchangeable, so one of them stands for every fresh draw.
FreshName == CHOOSE n \in 1..(Cardinality(disk) + 1) :
                /\ n \notin disk
                /\ \A m \in 1..(n - 1) : m \in disk
NameDraws == disk \cup {FreshName}

\* the index loop of BlockChain::longest_branch; 0 when there is no branch
RECURSIVE LongestFrom(_, _, _, _)
LongestFrom(brs, i, max_top, max_index) ==
    IF i > Len(brs) THEN max_index
    ELSE IF brs[i].top_index >= max_top
         THEN LongestFrom(brs, i + 1, brs[i].top_index, i)
         ELSE LongestFrom(brs, i + 1, max_top, max_index)
LongestIndex(brs) == LongestFrom(brs, 1, 0, 0)

\* mutant: the copy loop runs to the chunk of block_id - 1 inclusive
CopyChunksInclusive(old, block_id) ==
    LET ids == {i \in DOMAIN old.blocks : i \div ChunkSize <= (block_id - 1) \div ChunkSize}
    IN  [i \in ids |-> old.blocks[i]]

\* mutant: every chunk file of the old branch is copied

\* the copy loop of BlockChain::branch: the chunk files 0 .. (block_id-1)/CHUNK_SIZE - 1
\* of the old branch; chunk c holds the ids c*CHUNK_SIZE .. (c+1)*CHUNK_SIZE - 1
CopyChunks(old, block_id) ==
    LET ids == {i \in DOMAIN old.blocks : i \div ChunkSize < (block_id - 1) \div ChunkSize}
    IN  [i \in ids |-> old.blocks[i]]

\* the replay loop of BlockChain::branch: old_branch.block(i) for i in from..=to
RECURSIVE Replay(_, _, _, _)
Replay(br, old, from, to) ==
    IF from > to THEN [ok |-> TRUE, branch |-> br]
    ELSE LET r == BranchAdd(br, BranchBlock(old, from))
         IN  IF r.ok THEN Replay(r.branch, old, from + 1, to) ELSE r

\* BlockChain::branch(old_branch, block), the new branch it builds
Branch(old, b, name) ==
    LET last_chunk_bottom == Max(((b.block_id - 1) \div ChunkSize) * ChunkSize, 1)
        start == [name |-> name,
                  top_index |-> last_chunk_bottom - 1,
                  blocks |-> CopyChunks(old, b.block_id)]
        replayed == Replay(start, old, last_chunk_bottom, b.block_id - 1)
    IN  IF replayed.ok THEN BranchAdd(replayed.branch, b) ELSE replayed

\* the scan loop of BlockChain::add over the branches in creation order
RECURSIVE AddScan(_, _, _)
AddScan(brs, b, i) ==
    IF i > Len(brs) THEN [kind |-> "none", at |-> 0]
    ELSE LET br == brs[i] IN
         IF b.block_id = br.top_index + 1 /\ BranchAdd(br, b).ok
              THEN [kind |-> "append", at |-> i]
         ELSE IF b.block_id > br.top_index
              THEN AddScan(brs, b, i + 1)
         ELSE IF BranchBlock(br, b.block_id) = None
              THEN [kind |-> "panic", at |-> i]
         ELSE IF BranchBlock(br, b.block_id) = b
              THEN [kind |-> "duplicate", at |-> i]
         ELSE IF Validate(b, br)
              THEN [kind |-> "candidate", at |-> i]
         ELSE AddScan(brs, b, i + 1)

\* the blocks stored in some branch of the chain
StoredBlocks == UNION {{branches[i].blocks[k] : k \in DOMAIN branches[i].blocks} :
                          i \in 1..Len(branches)}

\* the hashes a correct miner puts into prev_hash of a block with this id
LinkedPrev(id) ==
    (IF id <= 1 THEN {ZeroHash} ELSE {}) \cup
    {Hash(s) : s \in {t \in StoredBlocks : t.block_id = id - 1}}

\* the blocks offered to BlockChain::add, by the miner or by a peer:
\*  - a block linked to a stored parent, with the first nonce; with the second
\*    nonce once its sibling with the first nonce is stored (a competing
\*    miner), up to MaxForkId; with a nonce that misses the target;
\*  - a block whose prev_hash is the hash of no block;
\*  - a block with id 0, as Block::new numbers the first block.

\* the proof-of-work nonces offered for a block with this id and parent
Nonces(id, p, max_fork_id) ==
    {1} \cup (IF /\ id <= max_fork_id
                 /\ [block_id |-> id, prev_hash |-> p, pow |-> 1] \in StoredBlocks
              THEN {2} ELSE {})

\* blocks linked to a stored parent, carrying a valid proof of work
LinkedBlocks(max_id, max_fork_id) ==
    UNION {UNION {{[block_id |-> id, prev_hash |-> p, pow |-> n] :
                      n \in Nonces(id, p, max_fork_id)} :
                     p \in LinkedPrev(id)} : id \in 1..max_id}

\* blocks no branch can take: a nonce that misses the target, a prev_hash that
\* is the hash of no block, and the id 0 Block::new gives the first block
BrokenBlocks(max_id) ==
    UNION {{[block_id |-> id, prev_hash |-> p, pow |-> 0] : p \in LinkedPrev(id)} :
              id \in 1..max_id}
    \cup {[block_id |-> id, prev_hash |-> BadHash, pow |-> 1] : id \in 1..max_id}
    \cup {[block_id |-> 0, prev_hash |-> ZeroHash, pow |-> n] : n \in {0, 1}}

Op(kind, b, result, how, at) ==
    [op |-> kind, block |-> b, result |-> result, how |-> how, at |-> at]

\* line 163: branch.add(block) on the branch the scan stopped at
Appended(brs, at, b) == [brs EXCEPT ![at] = BranchAdd(brs[at], b).branch]

\* mutant: the new branch takes the place of the branch it was forked from
PushedOverParent(brs, at, new_branch) == [brs EXCEPT ![at] = new_branch]

\* line 152: self.branches.push(branch)
Pushed(brs, at, new_branch) == Append(brs, new_branch)

\* BlockChain::add(block); a fork is explored while fewer than max_branches exist
Add(b, max_branches) ==
    /\ status = "running"
    /\ LET scan == AddScan(branches, b, 1) IN
       CASE scan.kind = "append" ->
              /\ branches' = Appended(branches, scan.at, b)
              /\ last' = Op("add", b, "Ok", "append", scan.at)
              /\ UNCHANGED <<disk, status>>
         [] scan.kind = "duplicate" ->
              /\ last' = Op("add", b, "DuplicateBlock", "duplicate", scan.at)
              /\ UNCHANGED <<branches, disk, status>>
         [] scan.kind = "none" ->
              /\ last' = Op("add", b, "NoValidBranches", "none", 0)
              /\ UNCHANGED <<branches, disk, status>>
         [] scan.kind = "panic" ->
              \* line 172: branch.block(block.block_id).unwrap() on None
              /\ last' = Op("add", b, "Panic", "panic", scan.at)
              /\ status' = "panicked"
              /\ UNCHANGED <<branches, disk>>
         [] scan.kind = "candidate" ->
              /\ Len(branches) < max_branches
              /\ \E name \in NameDraws :
                 IF name \in disk
                 THEN \* generate_new_branch_name never leaves its loop
                      /\ last' = Op("add", b, "Hang", "fork", scan.at)
                      /\ status' = "hung"
                      /\ UNCHANGED <<branches, disk>>
                 ELSE LET r == Branch(branches[scan.at], b, name) IN
                      /\ disk' = disk \cup {name}
                      /\ status' = status
                      /\ IF r.ok
                         THEN /\ branches' = Pushed(branches, scan.at, r.branch)
                              /\ last' = Op("add", b, "Ok", "fork", scan.at)
                         ELSE /\ branches' = branches
                              /\ last' = Op("add", b, "Invalid", "fork", scan.at)
    /\ pre' = branches

\* BlockChain::longest_branch as called by top and prune_branches: the branches
\* after the call (an empty branch is created when there is none)
WithLongest(brs, name) == IF Len(brs) = 0 THEN <<NewBranch(name)>> ELSE brs

Names(brs) == {brs[i].name : i \in 1..Len(brs)}

\* BlockChain::top()
Top ==
    /\ status = "running"
    /\ LET brs == WithLongest(branches, FreshName) IN
       /\ branches' = brs
       /\ disk' = disk \cup Names(brs)
       /\ last' = Op("top", BranchTop(brs[LongestIndex(brs)]), "Done", "top", LongestIndex(brs))
    /\ pre' = branches
    /\ UNCHANGED status

\* mutant: a branch exactly PruneDepth behind is pruned too
PrunedOffByOne(brs) ==
    LET longest_branch_top == brs[LongestIndex(brs)].top_index IN
    IF longest_branch_top <= PruneDepth THEN brs
    ELSE SelectSeq(brs, LAMBDA br : ~(br.top_index <= longest_branch_top - PruneDepth))

\* the branches BlockChain::prune_branches keeps
Pruned(brs) ==
    LET longest_branch_top == brs[LongestIndex(brs)].top_index IN
    IF longest_branch_top <= PruneDepth THEN brs
    ELSE SelectSeq(brs, LAMBDA br : ~(br.top_index < longest_branch_top - PruneDepth))

\* BlockChain::prune_branches()
Prune ==
    /\ status = "running"
    /\ LET brs == WithLongest(branches, FreshName)
           kept == Pruned(brs) IN
       /\ branches' = kept
       /\ disk' = (disk \cup Names(brs)) \ (Names(brs) \ Names(kept))
       /\ last' = Op("prune", None, "Done", "prune", LongestIndex(brs))
    /\ pre' = branches
    /\ UNCHANGED status

\* no fold has been asked for
Idle == [pc |-> "idle"]

\* BlockChain::new on an empty directory
Init ==
    /\ branches = <<>>
    /\ disk = {}
    /\ status = "running"
    /\ pre = <<>>
    /\ last = Op("new", None, "Done", "new", 0)
    /\ wallet = Idle
    /\ lock = "free"
    /\ miner = Idle
    /\ tx = Idle
    /\ net = Idle

\* a block arrives from the miner or from a peer
AddOffered ==
    /\ \E b \in LinkedBlocks(MaxId, MaxForkId) \cup BrokenBlocks(MaxId) : Add(b, MaxBranches)
    /\ UNCHANGED <<wallet_vars, miner_vars, net>>

\* a caller asks for the top of the chain
TopCalled ==
    /\ Top
    /\ UNCHANGED <<wallet_vars, miner_vars, net>>

\* a caller prunes the chain
PruneCalled ==
    /\ Prune
    /\ UNCHANGED <<wallet_vars, miner_vars, net>>

Next ==
    \/ AddOffered
    \/ TopCalled
    \/ PruneCalled

Spec == Init /\ [][Next]_vars

\* long chains: correct miners only, on at most DeepBranches branches
AddMined ==
    /\ \E b \in LinkedBlocks(DeepMaxId, DeepForkId) : Add(b, DeepBranches)
    /\ UNCHANGED <<wallet_vars, miner_vars, net>>

NextDeep ==
    \/ AddMined
    \/ TopCalled
    \/ PruneCalled

SpecDeep == Init /\ [][NextDeep]_vars

(***************************************************************************)
(* Wallet accounting                                                       *)
(***************************************************************************)
Addresses == 1..MaxAddress

\* WalletStatus and Option<WalletStatus>
WalletStatus(balance, max_id) == [balance |-> balance, max_id |-> max_id]
Some(st) == [some |-> TRUE, status |-> st]
NoStatus == [some |-> FALSE, status |-> WalletStatus(0, 0)]

Coins(n) == n * PageChunkSize

\* Page::cost
PageCost(page) == page.data_length

\* Transaction<Transfer>::update_wallet_status
TransferUpdate(transfer, address, st, is_block_winner) ==
    LET is_sender == transfer.from = address
        paid == IF is_sender
                THEN [st EXCEPT !.balance = @ - (transfer.amount + transfer.fee),
                                !.max_id = transfer.id]
                ELSE st
        received == IF transfer.to = address
                    THEN [paid EXCEPT !.balance = @ + transfer.amount]
                    ELSE paid
        won == IF is_block_winner
               THEN [received EXCEPT !.balance = @ + transfer.fee]
               ELSE received
    IN  IF is_sender /\ transfer.id <= st.max_id THEN NoStatus ELSE Some(won)

\* the amount Transaction<Page> hands to Page::update_wallet_status
PageFromAmount(page, address) ==
    IF page.from = address THEN PageCost(page) + page.fee ELSE 0

\* Page::update_wallet_status
PageUpdate(page, st, from_amount, is_block_winner) ==
    LET paid == IF from_amount > 0
                THEN [st EXCEPT !.balance = @ - from_amount, !.max_id = page.id]
                ELSE st
        won == IF is_block_winner
               THEN [paid EXCEPT !.balance = @ + page.fee]
               ELSE paid
    IN  IF from_amount > 0 /\ page.id <= st.max_id THEN NoStatus ELSE Some(won)

RewardCreditAlways(block, address, st) ==
    [st EXCEPT !.balance = @ + Coins(BlockReward)]

\* the reward of Block::update_wallet_status
RewardCredit(block, address, st) ==
    IF block.raward_to = address
    THEN [st EXCEPT !.balance = @ + Coins(BlockReward)]
    ELSE st

\* the loop over self.pages, from page i on
RECURSIVE FoldPages(_, _, _, _)
FoldPages(block, address, st, i) ==
    IF i > Len(block.pages) THEN Some(st)
    ELSE LET is_block_winner == block.raward_to = address
             new_status == PageUpdate(block.pages[i], st,
                                      PageFromAmount(block.pages[i], address),
                                      is_block_winner)
         IN  IF new_status.some
             THEN FoldPages(block, address, new_status.status, i + 1)
             ELSE NoStatus

FoldTransfersSkipped(block, address, st, i) == FoldPages(block, address, st, 1)

\* the loop over self.transfers, from transfer i on, and what follows it
RECURSIVE FoldTransfers(_, _, _, _)
FoldTransfers(block, address, st, i) ==
    IF i > Len(block.transfers) THEN FoldPages(block, address, st, 1)
    ELSE LET is_block_winner == block.raward_to = address
             new_status == TransferUpdate(block.transfers[i], address, st,
                                          is_block_winner)
         IN  IF new_status.some
             THEN FoldTransfers(block, address, new_status.status, i + 1)
             ELSE NoStatus

\* Block::update_wallet_status
BlockUpdateWalletStatus(block, address, st) ==
    FoldTransfers(block, address, RewardCredit(block, address, st), 1)

AddressesUsedWithoutTo(block) ==
    {block.raward_to}
    \cup {block.transfers[i].from : i \in 1..Len(block.transfers)}
    \cup {block.pages[i].from : i \in 1..Len(block.pages)}

\* Block::get_addresses_used: the HashSet of the addresses
AddressesUsed(block) ==
    {block.raward_to}
    \cup {block.transfers[i].from : i \in 1..Len(block.transfers)}
    \cup {block.transfers[i].to : i \in 1..Len(block.transfers)}
    \cup {block.pages[i].from : i \in 1..Len(block.pages)}

\* HashSet::into_iter().collect(): the elements once each, in any order
Collected(S) ==
    {v \in [1..Cardinality(S) -> S] : \A x \in S : \E i \in DOMAIN v : v[i] = x}

\* the transactions and blocks a fold is asked for
Transfers ==
    [id : 0..MaxTxId, from : Addresses, to : Addresses,
     amount : 0..MaxAmount, fee : 0..MaxFee]
Pages ==
    [id : 0..MaxTxId, from : Addresses, data_length : 0..MaxDataLength,
     fee : 0..MaxFee]
SeqsUpTo(S, n) == UNION {[1..k -> S] : k \in 0..n}
\* the block of test_block_verify: won by wallet 1, which sends 4.0 with fee
\* 1.0 to wallet 2
ScenarioBlock ==
    [raward_to |-> 1,
     transfers |-> <<[id |-> 1, from |-> 1, to |-> 2,
                      amount |-> Coins(ScenarioAmount), fee |-> Coins(ScenarioFee)]>>,
     pages |-> <<>>]
WalletBlocks ==
    UNION {{[raward_to |-> r, transfers |-> ts, pages |-> ps] :
                r \in Addresses, ps \in SeqsUpTo(Pages, MaxTxs - Len(ts))} :
           ts \in SeqsUpTo(Transfers, MaxTxs)}
    \cup {ScenarioBlock}

\* a caller asks for the fold of a block into the status of an address
InitWallet ==
    /\ branches = <<>>
    /\ disk = {}
    /\ status = "running"
    /\ pre = <<>>
    /\ last = Op("new", None, "Done", "new", 0)
    /\ lock = "free"
    /\ miner = Idle
    /\ tx = Idle
    /\ net = Idle
    /\ \E block \in WalletBlocks : \E address \in Addresses :
       \E max_id \in 0..MaxStartId :
          wallet = [pc |-> "called", block |-> block, address |-> address,
                    start |-> WalletStatus(0, max_id), result |-> NoStatus,
                    listed |-> FALSE, used |-> <<>>]

\* the call returns
UpdateWalletStatus ==
    /\ wallet.pc = "called"
    /\ wallet' = [wallet EXCEPT
                    !.pc = "done",
                    !.result = BlockUpdateWalletStatus(wallet.block, wallet.address,
                                                       wallet.start)]
    /\ UNCHANGED <<chain_vars, miner_vars, tx, net>>

\* a caller asks for the addresses of the block
GetAddressesUsed ==
    /\ wallet.pc \in {"called", "done"}
    /\ ~wallet.listed
    /\ \E v \in Collected(AddressesUsed(wallet.block)) :
          wallet' = [wallet EXCEPT !.listed = TRUE, !.used = v]
    /\ UNCHANGED <<chain_vars, miner_vars, tx, net>>

NextWallet ==
    \/ UpdateWalletStatus
    \/ GetAddressesUsed

SpecWallet == InitWallet /\ [][NextWallet]_vars

(***************************************************************************)
(* Transaction::validate_content                                           *)
(***************************************************************************)
\* f32: the numbers of the model and NaN
F32(v) == [nan |-> FALSE, v |-> v]
NaN == [nan |-> TRUE, v |-> 0]
F32s == {F32(v) : v \in (0 - MaxF32)..MaxF32} \cup {NaN}

\* the f32 comparisons x < 0.0 and x >= 0.0: both are false of NaN
LessThanZero(x) == ~x.nan /\ x.v < 0
AtLeastZero(x) == ~x.nan /\ x.v >= 0

\* TransactionHeader (id and to do not enter the validation)
TransactionHeaders ==
    [from : Addresses, amount : F32s, transaction_fee : F32s]

\* Transaction: the header, the signature (who signed which header) and
\* whether e fits the public key
Transactions ==
    [header : TransactionHeaders,
     signature : [signer : Addresses, signed : TransactionHeaders],
     e_fits : BOOLEAN]

\* PublicWallet::verify(header hash, signature)
Verify(from, e_fits, header, signature) ==
    IF ~e_fits THEN "BadKey"
    ELSE IF signature.signer = from /\ signature.signed = header THEN "Ok"
    ELSE "BadSignature"

\* Transaction::validate_content
ValidateContent(t) ==
    IF LessThanZero(t.header.amount) THEN "Negative"
    ELSE IF LessThanZero(t.header.transaction_fee) THEN "Negative"
    ELSE Verify(t.header.from, t.e_fits, t.header, t.signature)

\* a transaction arrives and is validated
InitValidate ==
    /\ branches = <<>>
    /\ disk = {}
    /\ status = "running"
    /\ pre = <<>>
    /\ last = Op("new", None, "Done", "new", 0)
    /\ wallet = Idle
    /\ lock = "free"
    /\ miner = Idle
    /\ net = Idle
    /\ \E t \in Transactions : tx = [pc |-> "called", transaction |-> t, result |-> "none"]

ValidateContentCalled ==
    /\ tx.pc = "called"
    /\ tx' = [tx EXCEPT !.pc = "done", !.result = ValidateContent(tx.transaction)]
    /\ UNCHANGED <<chain_vars, wallet, miner_vars, net>>

NextValidate == ValidateContentCalled

SpecValidate == InitValidate /\ [][NextValidate]_vars

(***************************************************************************)
(* The miners: miner::mine and the miner thread of the service             *)
(***************************************************************************)
\* the proof-of-work nonce the local miner finds
OwnNonce == 3

\* Block::new(chain, wallet), given chain.top()
BlockNew(top) ==
    [block_id |-> IF top = None THEN 0 ELSE top.block_id + 1,
     prev_hash |-> IF top = None THEN ZeroHash ELSE Hash(top),
     pow |-> 0]

\* miner::mine_block: raise pow until the proof of work is valid
MineBlock(block) == [block EXCEPT !.pow = OwnNonce]

\* the top block of the longest branch, for a chain that has a branch
TopOf(brs) == IF Len(brs) = 0 THEN None ELSE BranchTop(brs[LongestIndex(brs)])

\* mine_next_block line 39: the chain is empty or its top is the parent
StillTop(top, block) == top = None \/ top.block_id + 1 = block.block_id

LockAfterCheckReleased == "free"

\* the MutexGuard taken at line 36 lives to the end of mine_next_block
LockAfterCheck == "miner"

SendAlways(result, block, sent) == Append(sent, block)

\* lines 41-52: the block is broadcast when chain.add returned Ok
Send(result, block, sent) == IF result = "Ok" THEN Append(sent, block) ELSE sent

\* only miner::mine has added blocks so far
NotSolo(m) == [m EXCEPT !.solo = FALSE]

InitMiner ==
    /\ branches = <<>>
    /\ disk = {}
    /\ status = "running"
    /\ pre = <<>>
    /\ last = Op("new", None, "Done", "new", 0)
    /\ wallet = Idle
    /\ tx = Idle
    /\ net = Idle
    /\ lock = "free"
    /\ miner = [pc |-> "create", block |-> None, sent |-> <<>>, added |-> {},
                mine_pc |-> "new", mine_block |-> None, mined |-> 0, solo |-> TRUE]

\* miner::mine, first half of an iteration: Block::new reads chain.top()
MineNew ==
    /\ lock = "free"
    /\ miner.mine_pc = "new"
    /\ miner.mined < MaxMined
    /\ Top
    /\ lock' = "mine"
    /\ miner' = [miner EXCEPT !.mine_pc = "add",
                              !.mine_block = MineBlock(BlockNew(last'.block))]
    /\ UNCHANGED <<wallet_vars, net>>

\* miner::mine, second half: chain.add(mine_block(block))
MineAdd ==
    /\ lock = "mine"
    /\ miner.mine_pc = "add"
    /\ Add(miner.mine_block, MinerBranches)
    /\ lock' = "free"
    /\ miner' = [miner EXCEPT !.mine_pc = "new", !.mined = @ + 1]
    /\ UNCHANGED <<wallet_vars, net>>

\* mine_next_block lines 22-27: create the next block under the lock
MinerCreate ==
    /\ lock = "free"
    /\ miner.pc = "create"
    /\ Len(miner.sent) < MaxSent
    /\ Top
    /\ miner' = [NotSolo(miner) EXCEPT !.pc = "mining",
                                       !.block = BlockNew(last'.block)]
    /\ UNCHANGED <<lock, wallet_vars, net>>

\* lines 30-33: the mining work ends with a valid proof of work, or is given up
MinerMined ==
    /\ miner.pc = "mining"
    /\ status = "running"
    /\ \/ miner' = [miner EXCEPT !.pc = "check", !.block = MineBlock(@)]
       \/ miner' = [miner EXCEPT !.pc = "create", !.block = None]
    /\ UNCHANGED <<chain_vars, lock, wallet_vars, net>>

\* lines 36-39: take the lock, read the top, test that the block still fits
MinerCheck ==
    /\ lock = "free"
    /\ miner.pc = "check"
    /\ Top
    /\ IF StillTop(last'.block, miner.block)
       THEN /\ lock' = LockAfterCheck
            /\ miner' = [miner EXCEPT !.pc = "add"]
       ELSE /\ lock' = "free"
            /\ miner' = [miner EXCEPT !.pc = "create", !.block = None]
    /\ UNCHANGED <<wallet_vars, net>>

\* lines 41-54: chain.add, the broadcast, the lock released on return
MinerAdd ==
    /\ miner.pc = "add"
    /\ Add(miner.block, MinerBranches)
    /\ lock' = "free"
    /\ miner' = [miner EXCEPT
                    !.pc = "create",
                    !.block = None,
                    !.added = IF last'.result = "Ok" THEN @ \cup {miner.block} ELSE @,
                    !.sent = Send(last'.result, miner.block, @)]
    /\ UNCHANGED <<wallet_vars, net>>

\* the packet handler adds a block received from a peer, under the lock
PeerBlock ==
    /\ lock = "free"
    /\ \E b \in LinkedBlocks(MinerMaxId, MinerForkId) : Add(b, MinerBranches)
    /\ miner' = NotSolo(miner)
    /\ UNCHANGED <<lock, wallet_vars, net>>

NextMiner ==
    \/ MineNew
    \/ MineAdd
    \/ MinerCreate
    \/ MinerMined
    \/ MinerCheck
    \/ MinerAdd
    \/ PeerBlock

SpecMiner == InitMiner /\ [][NextMiner]_vars

(***************************************************************************)
(* The network layer of one node (ConnectionManager, message handler)      *)
(*                                                                         *)
(* All nodes run on one host, as in test_network: an address is a port.    *)
(* The node listens on OwnPort, peer p listens on port p, and the socket    *)
(* of an accepted connection has an ephemeral port above the peers' ports. *)
(***************************************************************************)
OwnPort == 0
PeerPorts == 1..MaxPeers
NoAddress == -1

\* the ephemeral port of the n-th connection of the model
Ephemeral(n) == MaxPeers + n

\* Packet
OnConnected(port) == [type |-> "OnConnected", arg |-> port]
KnownNode(address) == [type |-> "KnownNode", arg |-> address]
Ping == [type |-> "Ping", arg |-> 0]

\* HashMap::insert and HashMap::remove
Put(f, k, v) == [x \in (DOMAIN f) \cup {k} |-> IF x = k THEN v ELSE f[x]]
Remove(f, k) == [x \in (DOMAIN f) \ {k} |-> f[x]]

NewConnectionSilent(port, id, peer) ==
    [id |-> id, peer |-> peer, public_address |-> NoAddress,
     written |-> <<>>, greeted |-> FALSE, sent |-> <<>>, taken |-> 0]

\* Connection::new: the receiver thread is started and OnConnected(port) is
\* written; public_address is None.  greeted: the peer has written its own
\* OnConnected; sent: the packets the peer has written to the connection;
\* taken: how many of them the message handler has taken.
NewConnection(port, id, peer) ==
    [id |-> id, peer |-> peer, public_address |-> NoAddress,
     written |-> <<OnConnected(port)>>, greeted |-> FALSE,
     sent |-> <<>>, taken |-> 0]

\* ConnectionManager::add_client
AddClient(n, address, peer) ==
    [n EXCEPT !.connections = Put(@, address, NewConnection(n.port, n.next_conn, peer)),
              !.next_conn = @ + 1]

\* the connections whose public_address is known
Confirmed(conns) == {k \in DOMAIN conns : conns[k].public_address # NoAddress}

SendTargetsAll(conns) == DOMAIN conns

\* ConnectionManager::send: the connections the packet is written to
SendTargets(conns) == Confirmed(conns)

\* the packet written once to each of the connections in keys
Written(conns, keys, packet) ==
    [k \in DOMAIN conns |->
        IF k \in keys THEN [conns[k] EXCEPT !.written = Append(@, packet)]
        ELSE conns[k]]

\* the connections whose peer has shut down or has closed its end: a write to
\* one of them may fail
Down(n) ==
    {k \in DOMAIN n.connections :
        \/ n.connections[k].peer \in n.shut
        \/ n.connections[k].id \in n.reset}

\* the outcome of the writes of one call: the connections whose write fails,
\* and the connections the HashMap iteration visits before the first of them
NoFailure == [failing |-> {}, before |-> {}]
Outcomes(n) ==
    {NoFailure} \cup
    {[failing |-> f, before |-> b] :
        f \in (SUBSET Down(n)) \ {{}},
        b \in SUBSET (Confirmed(n.connections) \ Down(n))}

\* ConnectionManager::send_to, the predicate given as the set of the addresses
\* that satisfy it; a failing write ends in expect("Sent packet")
SendTo(n, packet, satisfying, io) ==
    LET targets == {k \in Confirmed(n.connections) : k \in satisfying} IN
    IF targets \cap io.failing = {}
    THEN [n EXCEPT !.connections = Written(@, targets, packet), !.failed = {}]
    ELSE [n EXCEPT !.connections = Written(@, (targets \cap io.before) \ io.failing, packet),
                   !.failed = targets \cap io.failing,
                   !.state = "panicked"]

ForwardToAll(n, from) == DOMAIN n.connections

\* register_node, line 304: |addr| addr != from
ForwardTo(n, from) == (DOMAIN n.connections) \ {from}

\* ConnectionManager::register_node(address, Some(from))
RegisterNode(n, address, from, io) ==
    IF address \in n.known_nodes THEN n
    ELSE SendTo([n EXCEPT !.known_nodes = @ \cup {address}],
                KnownNode(address), ForwardTo(n, from), io)

\* mutant: the public address of the removed connection stays in the open set
DisconnectFromKeepsOpen(n, address) ==
    IF address \notin DOMAIN n.connections THEN n
    ELSE [n EXCEPT !.connections = Remove(@, address)]

\* ConnectionManager::disconnect_from
DisconnectFrom(n, address) ==
    IF address \notin DOMAIN n.connections THEN n
    ELSE [n EXCEPT !.connections = Remove(@, address),
                   !.open_connections =
                       @ \ {n.connections[address].public_address}]

RECURSIVE DisconnectAll(_, _)
DisconnectAll(n, addresses) ==
    IF addresses = {} THEN n
    ELSE LET a == CHOOSE x \in addresses : TRUE
         IN  DisconnectAll(DisconnectFrom(n, a), addresses \ {a})

\* ConnectionManager::send, lines 366-369: the failed connections are removed
Disconnected(n, addresses) == DisconnectAll(n, addresses)

\* ConnectionManager::send: every confirmed connection is written to; the ones
\* whose write fails are collected and disconnected after the loop
SendPacket(n, packet, io) ==
    LET targets == SendTargets(n.connections)
        failed == targets \cap io.failing
    IN  Disconnected([n EXCEPT !.connections = Written(@, targets \ failed, packet),
                               !.failed = failed],
                     failed)

\* ConnectionManager::confirm_connection (the connection is in the table)
ConfirmConnection(n, address, public_address) ==
    [n EXCEPT !.connections[address].public_address = public_address]

\* PacketHandler::on_packet of the tests: the packet is recorded
OnPacket(n, from, packet) == [n EXCEPT !.passed = Append(@, packet)]

OnConnectedKeptInside(n, from, packet) == n

\* handle_message_packet line 139: OnConnected goes on to the packet handler
OnConnectedPassed(n, from, packet) == OnPacket(n, from, packet)

\* handle_message_packet
HandleMessagePacket(n, from, packet, io) ==
    CASE packet.type = "KnownNode" -> RegisterNode(n, packet.arg, from, io)
      [] packet.type = "OnConnected" ->
            LET node_address == packet.arg IN
            IF node_address \in n.open_connections
            THEN DisconnectFrom(n, from)
            ELSE LET opened == [n EXCEPT !.open_connections = @ \cup {node_address}] IN
                 IF from \notin DOMAIN n.connections
                 THEN \* confirm_connection: get_mut(address).unwrap() on None
                      [opened EXCEPT !.state = "panicked"]
                 ELSE LET registered ==
                              RegisterNode(ConfirmConnection(opened, from, node_address),
                                           node_address, from, io)
                      IN  IF registered.state = "panicked" THEN registered
                          ELSE OnConnectedPassed(registered, from, packet)
      [] OTHER -> OnPacket(n, from, packet)

\* ConnectionManager::new and the channel of NetworkConnection::new, for the
\* node that listens on the port and knows the addresses
NewNode(port, known) ==
    [state |-> "running", pc |-> "recv", port |-> port,
     known_nodes |-> known, open_connections |-> {}, connections |-> <<>>,
     queue |-> <<>>, passed |-> <<>>, next_conn |-> 1,
     packets |-> 0, sends |-> 0, send_tos |-> 0, to |-> {}, shut |-> {},
     reset |-> {}, failed |-> {}]

\* NetworkConnection::new
InitNet ==
    /\ branches = <<>>
    /\ disk = {}
    /\ status = "running"
    /\ pre = <<>>
    /\ last = Op("new", None, "Done", "new", 0)
    /\ wallet = Idle
    /\ tx = Idle
    /\ lock = "free"
    /\ miner = Idle
    /\ net = NewNode(OwnPort, {})

Running == net.state = "running"

\* the user registers a node: register_node(address, None)
UserRegisters ==
    /\ Running
    /\ \E address \in PeerPorts :
          /\ address \notin net.known_nodes
          /\ net' = [net EXCEPT !.known_nodes = @ \cup {address}]
    /\ UNCHANGED <<chain_vars, wallet_vars, miner_vars>>

\* start_node_listner: a peer has dialled, the connection is accepted
Accepts ==
    /\ Running
    /\ net.next_conn <= MaxConns
    /\ \E p \in PeerPorts \ net.shut :
          net' = AddClient(net, Ephemeral(net.next_conn), p)
    /\ UNCHANGED <<chain_vars, wallet_vars, miner_vars>>

\* start_message_handler: recv_timeout ends with Timeout
TimesOut ==
    /\ Running
    /\ net.pc = "recv"
    /\ net.queue = <<>>
    /\ net' = [net EXCEPT !.pc = "tick"]
    /\ UNCHANGED <<chain_vars, wallet_vars, miner_vars>>

\* the addresses connect dials: known, not open, not the node itself
Dialled(n) == (n.known_nodes \ n.open_connections) \ {n.port}

\* add_client for each of the addresses, in any order
RECURSIVE DialAll(_, _)
DialAll(n, addresses) ==
    IF addresses = {} THEN n
    ELSE LET a == CHOOSE x \in addresses : TRUE
         IN  DialAll(AddClient(n, a, a), addresses \ {a})

\* connect_to_known_nodes: TcpStream::connect succeeds for some of the addresses
ConnectsToKnownNodes ==
    /\ Running
    /\ net.pc = "tick"
    /\ \E reached \in SUBSET (Dialled(net) \ net.shut) :
          /\ net.next_conn + Cardinality(reached) <= MaxConns + 1
          /\ net' = [DialAll(net, reached) EXCEPT !.pc = "recv"]
    /\ UNCHANGED <<chain_vars, wallet_vars, miner_vars>>

\* the message a receiver thread puts on the channel (start_packet_reciver)
Message(n, k, packet) == [from |-> k, id |-> n.connections[k].id, packet |-> packet]

EnqueuedFirst(queue, m) == <<m>> \o queue

\* Sender::send of the mpsc channel
Enqueued(queue, m) == Append(queue, m)

\* the peer writes the packet to connection k; the receiver thread of the
\* connection reads it and sends it to the channel
Received(n, k, packet) ==
    [n EXCEPT !.connections[k].sent = Append(@, packet),
              !.queue = Enqueued(@, Message(n, k, packet))]

\* the message handler takes a message: it is counted for its connection
Counted(conns, m) ==
    [k \in DOMAIN conns |->
        IF k = m.from /\ conns[k].id = m.id
        THEN [conns[k] EXCEPT !.taken = @ + 1] ELSE conns[k]]

\* the peer's Connection::new writes its OnConnected, the receiver thread of
\* the connection forwards it
PeerGreets ==
    /\ Running
    /\ \E k \in DOMAIN net.connections :
          /\ ~net.connections[k].greeted
          /\ k \notin Down(net)
          /\ net' = [Received(net, k, OnConnected(net.connections[k].peer))
                        EXCEPT !.connections[k].greeted = TRUE]
    /\ UNCHANGED <<chain_vars, wallet_vars, miner_vars>>

\* the peer writes another packet, the receiver thread forwards it
PeerSends ==
    /\ Running
    /\ net.packets < MaxPackets
    /\ \E k \in DOMAIN net.connections :
       \E packet \in {Ping} \cup {KnownNode(a) : a \in PeerPorts \cup {OwnPort}} :
          /\ net.connections[k].greeted
          /\ k \notin Down(net)
          /\ net' = [Received(net, k, packet) EXCEPT !.packets = @ + 1]
    /\ UNCHANGED <<chain_vars, wallet_vars, miner_vars>>

\* start_message_handler: a Message::Packet is taken and handled
HandlesPacket ==
    /\ Running
    /\ net.pc = "recv"
    /\ net.queue # <<>>
    /\ LET m == Head(net.queue)
           taken == [net EXCEPT !.queue = Tail(@), !.passed = <<>>, !.failed = {},
                                !.connections = Counted(@, m)]
       IN  \E io \in Outcomes(net) :
              net' = HandleMessagePacket(taken, m.from, m.packet, io)
    /\ UNCHANGED <<chain_vars, wallet_vars, miner_vars>>

\* the user broadcasts: send(Ping)
UserSends ==
    /\ Running
    /\ net.sends < MaxSends
    /\ \E io \in Outcomes(net) :
          net' = [SendPacket(net, Ping, io) EXCEPT !.sends = @ + 1]
    /\ UNCHANGED <<chain_vars, wallet_vars, miner_vars>>

\* the addresses a connection can have in the table
AllAddresses == PeerPorts \cup {Ephemeral(i) : i \in 1..MaxConns}

\* the predicates the callers of send_to give: |addr| addr == from
\* (packet_handler.rs) and |addr| addr != from (register_node)
Predicates(from) == {{from}, AllAddresses \ {from}}

\* the user sends to some: send_to(Ping, predicate); to is the predicate given
UserSendsTo ==
    /\ Running
    /\ net.send_tos < MaxSendTos
    /\ \E from \in DOMAIN net.connections : \E satisfying \in Predicates(from) :
       \E io \in Outcomes(net) :
          net' = [SendTo(net, Ping, satisfying, io) EXCEPT !.send_tos = @ + 1,
                                                          !.to = satisfying]
    /\ UNCHANGED <<chain_vars, wallet_vars, miner_vars>>

NextNet ==
    \/ UserRegisters
    \/ Accepts
    \/ TimesOut
    \/ ConnectsToKnownNodes
    \/ PeerGreets
    \/ PeerSends
    \/ HandlesPacket
    \/ UserSends

SpecNet == InitNet /\ [][NextNet]_vars

\* the node with a user that also sends to some of the peers
NextNetSend ==
    \/ NextNet
    \/ UserSendsTo

SpecNetSend == InitNet /\ [][NextNetSend]_vars

\* a peer shuts down (its NetworkConnection is dropped): its ends of the
\* connections are closed, it writes nothing more and accepts no dial
PeerShutsDown ==
    /\ Running
    /\ \E p \in PeerPorts \ net.shut : net' = [net EXCEPT !.shut = @ \cup {p}]
    /\ UNCHANGED <<chain_vars, wallet_vars, miner_vars>>

\* the node among peers that dial it and may shut down
NextNetDown ==
    \/ Accepts
    \/ PeerGreets
    \/ PeerSends
    \/ HandlesPacket
    \/ UserSends
    \/ UserSendsTo
    \/ PeerShutsDown

SpecNetDown == InitNet /\ [][NextNetDown]_vars

(***************************************************************************)
(* Three nodes A, B, C on ports 0, 1, 2, as in test_network.  net.nodes     *)
(* holds one ConnectionManager and channel per node; a TCP connection is    *)
(* one entry in the table of the node that dialled and one in the table of  *)
(* the node that accepted, both with the same id.  What one end has written *)
(* reaches the channel of the other node in a later step.                   *)
(***************************************************************************)
Nodes == PeerPorts \cup {OwnPort}

\* the ids of the connections in the node's table
Ends(n) == {n.connections[k].id : k \in DOMAIN n.connections}

\* Drop for Connection: node i has become node; the streams of the
\* connections it no longer holds are shut down, which their other ends see
Settled(nodes, i, node) ==
    [j \in Nodes |->
        IF j = i THEN node
        ELSE [nodes[j] EXCEPT
                 !.reset = @ \cup ((Ends(nodes[i]) \ Ends(node)) \cap Ends(nodes[j]))]]

\* add_client with the id of the TCP connection
AddEnd(n, id, address, peer) ==
    [AddClient([n EXCEPT !.next_conn = id], address, peer) EXCEPT !.next_conn = 1]

\* connect, for each of the addresses: TcpStream::connect and add_client at
\* node i, accept and add_client in the listener of the node dialled
RECURSIVE Connect(_, _, _, _)
Connect(nodes, links, i, addresses) ==
    IF addresses = {} THEN nodes
    ELSE LET a == CHOOSE x \in addresses : TRUE
             id == links + 1
             accepted == [nodes EXCEPT ![a] = AddEnd(@, id, Ephemeral(id), i)]
         IN  Connect(Settled(accepted, i, AddEnd(nodes[i], id, a, a)),
                     id, i, addresses \ {a})

\* test_network: B and C register the address of A
InitWeb ==
    /\ branches = <<>>
    /\ disk = {}
    /\ status = "running"
    /\ pre = <<>>
    /\ last = Op("new", None, "Done", "new", 0)
    /\ wallet = Idle
    /\ tx = Idle
    /\ lock = "free"
    /\ miner = Idle
    /\ net = [links |-> 0,
              nodes |-> [i \in Nodes |->
                            NewNode(i, IF i = OwnPort THEN {} ELSE {OwnPort})]]

\* start_message_handler of node i: recv_timeout ends with Timeout
NodeTimesOut(i) ==
    /\ net.nodes[i].state = "running"
    /\ net.nodes[i].pc = "recv"
    /\ net.nodes[i].queue = <<>>
    /\ net' = [net EXCEPT !.nodes[i].pc = "tick"]
    /\ UNCHANGED <<chain_vars, wallet_vars, miner_vars>>

\* connect_to_known_nodes of node i
NodeConnects(i) ==
    /\ net.nodes[i].state = "running"
    /\ net.nodes[i].pc = "tick"
    /\ LET addresses == Dialled(net.nodes[i]) IN
       /\ net.links + Cardinality(addresses) <= MaxLinks
       /\ net' = [links |-> net.links + Cardinality(addresses),
                  nodes |-> [Connect(net.nodes, net.links, i, addresses)
                                EXCEPT ![i].pc = "recv"]]
    /\ UNCHANGED <<chain_vars, wallet_vars, miner_vars>>

\* start_packet_reciver of a connection of node j: the next packet the other
\* end has written is read and sent to the channel
NodeReceives(j) ==
    /\ \E k \in DOMAIN net.nodes[j].connections :
          LET end == net.nodes[j].connections[k]
              other == net.nodes[end.peer].connections
          IN  \E o \in DOMAIN other :
                 /\ other[o].id = end.id
                 /\ Len(end.sent) < Len(other[o].written)
                 /\ net' = [net EXCEPT !.nodes[j] =
                               Received(@, k, other[o].written[Len(end.sent) + 1])]
    /\ UNCHANGED <<chain_vars, wallet_vars, miner_vars>>

\* start_message_handler of node i: a Message::Packet is taken and handled
NodeHandles(i) ==
    /\ net.nodes[i].state = "running"
    /\ net.nodes[i].pc = "recv"
    /\ net.nodes[i].queue # <<>>
    /\ LET n == net.nodes[i]
           m == Head(n.queue)
           taken == [n EXCEPT !.queue = Tail(@), !.passed = <<>>, !.failed = {},
                              !.connections = Counted(@, m)]
       IN  \E io \in Outcomes(n) :
              net' = [net EXCEPT !.nodes =
                         Settled(@, i, HandleMessagePacket(taken, m.from, m.packet, io))]
    /\ UNCHANGED <<chain_vars, wallet_vars, miner_vars>>

NextWeb ==
    \E i \in Nodes :
        \/ NodeTimesOut(i)
        \/ NodeConnects(i)
        \/ NodeReceives(i)
        \/ NodeHandles(i)

\* the message handler thread of node i
NodeHandler(i) == NodeTimesOut(i) \/ NodeConnects(i) \/ NodeHandles(i)

\* every thread that can take a step eventually takes one
FairWeb ==
    \A i \in Nodes :
        /\ WF_vars(NodeHandler(i))
        /\ WF_vars(NodeReceives(i))

SpecWeb == InitWeb /\ [][NextWeb]_vars /\ FairWeb

(***************************************************************************)
(* Shutdown of a node: Drop for NetworkConnection, the listener thread and *)
(* the message handler thread.  net.backlog holds the connections the      *)
(* listener has not accepted yet, net.queue the messages of the channel.   *)
(* A connection and a packet carry whether they came after the shutdown    *)
(* flag was set and after the Shutdown message was sent.                   *)
(***************************************************************************)
Stopped == {"done", "panicked"}

\* NetworkConnection::new: both threads are started
InitDrop ==
    /\ branches = <<>>
    /\ disk = {}
    /\ status = "running"
    /\ pre = <<>>
    /\ last = Op("new", None, "Done", "new", 0)
    /\ wallet = Idle
    /\ tx = Idle
    /\ lock = "free"
    /\ miner = Idle
    /\ net = [should_shutdown |-> FALSE, drop |-> "alive",
              listener |-> "accept", handler |-> "recv",
              backlog |-> <<>>, accepted |-> None, registered |-> {},
              queue |-> <<>>, handled |-> {}, poisoned |-> FALSE,
              dials |-> 0, arrivals |-> 0]

\* a peer dials the node
PeerDials ==
    /\ net.dials < MaxDials
    /\ net' = [net EXCEPT !.dials = @ + 1,
                          !.backlog = Append(@, [from |-> "peer", n |-> net.dials + 1])]
    /\ UNCHANGED <<chain_vars, wallet_vars, miner_vars>>

\* a receiver thread sends a packet to the channel
PacketArrives ==
    /\ net.arrivals < MaxArrivals
    /\ net' = [net EXCEPT !.arrivals = @ + 1,
                          !.queue = Append(@, [type |-> "Packet", n |-> net.arrivals + 1,
                                               behind |-> net.drop \in {"join_handler", "done"}])]
    /\ UNCHANGED <<chain_vars, wallet_vars, miner_vars>>

\* start_node_listner: listener.accept() returns a connection
ListenerAccepts ==
    /\ net.listener = "accept"
    /\ net.backlog # <<>>
    /\ net' = [net EXCEPT !.listener = "check",
                          !.backlog = Tail(@),
                          !.accepted = [from |-> Head(net.backlog).from,
                                        n |-> Head(net.backlog).n,
                                        after |-> net.should_shutdown]]
    /\ UNCHANGED <<chain_vars, wallet_vars, miner_vars>>

BreakNever(should_shutdown) == FALSE

\* start_node_listner line 89: if *should_shutdown.lock().unwrap() { break; }
BreakOnShutdown(should_shutdown) == should_shutdown

\* start_node_listner: the flag is read; the loop ends, or the connection is
\* registered with add_client under the lock of the ConnectionManager
ListenerChecks ==
    /\ net.listener = "check"
    /\ net' = IF BreakOnShutdown(net.should_shutdown)
              THEN [net EXCEPT !.listener = "done"]
              ELSE IF net.poisoned
                   THEN [net EXCEPT !.listener = "panicked"]
                   ELSE [net EXCEPT !.listener = "accept",
                                    !.registered = @ \cup {net.accepted}]
    /\ UNCHANGED <<chain_vars, wallet_vars, miner_vars>>

\* start_message_handler: Ok(Message::Packet); the handling returns, or it
\* panics with the lock of the ConnectionManager held
HandlerHandles ==
    /\ net.handler = "recv"
    /\ net.queue # <<>>
    /\ Head(net.queue).type = "Packet"
    /\ \E panics \in BOOLEAN :
          net' = [net EXCEPT !.queue = Tail(@),
                             !.handled = @ \cup {Head(net.queue)},
                             !.handler = IF panics THEN "panicked" ELSE "recv",
                             !.poisoned = panics]
    /\ UNCHANGED <<chain_vars, wallet_vars, miner_vars>>

\* start_message_handler: Ok(Message::Shutdown) => break
HandlerShutsDown ==
    /\ net.handler = "recv"
    /\ net.queue # <<>>
    /\ Head(net.queue).type = "Shutdown"
    /\ net' = [net EXCEPT !.queue = Tail(@), !.handler = "done"]
    /\ UNCHANGED <<chain_vars, wallet_vars, miner_vars>>

\* Drop for NetworkConnection, one statement at a time
Drops ==
    /\ \/ /\ net.drop = "alive"
          /\ net' = [net EXCEPT !.drop = "flag"]
       \/ /\ net.drop = "flag"
          /\ net' = [net EXCEPT !.should_shutdown = TRUE, !.drop = "connect"]
       \/ /\ net.drop = "connect"
          /\ net' = [net EXCEPT !.backlog = Append(@, [from |-> "self", n |-> 0]),
                                !.drop = "join_listener"]
       \/ /\ net.drop = "join_listener"
          /\ net.listener \in Stopped
          /\ net' = IF net.listener = "panicked"
                    THEN [net EXCEPT !.drop = "panicked"]
                    ELSE [net EXCEPT !.drop = "send"]
       \/ /\ net.drop = "send"
          /\ net' = IF net.handler = "panicked"
                    THEN [net EXCEPT !.drop = "panicked"]
                    ELSE [net EXCEPT !.queue = Append(@, [type |-> "Shutdown", n |-> 0,
                                                          behind |-> FALSE]),
                                     !.drop = "join_handler"]
       \/ /\ net.drop = "join_handler"
          /\ net.handler \in Stopped
          /\ net' = IF net.handler = "panicked"
                    THEN [net EXCEPT !.drop = "panicked"]
                    ELSE [net EXCEPT !.drop = "done"]
    /\ UNCHANGED <<chain_vars, wallet_vars, miner_vars>>

NextDrop ==
    \/ PeerDials
    \/ PacketArrives
    \/ ListenerAccepts
    \/ ListenerChecks
    \/ HandlerHandles
    \/ HandlerShutsDown
    \/ Drops

\* the two threads and, once it has begun, the drop take their steps
FairDrop ==
    /\ WF_vars(ListenerAccepts \/ ListenerChecks)
    /\ WF_vars(HandlerHandles \/ HandlerShutsDown)
    /\ WF_vars(Drops /\ net.drop # "alive")

SpecDrop == InitDrop /\ [][NextDrop]_vars /\ FairDrop

(***************************************************************************)
(* Properties of the chain store                                           *)
(***************************************************************************)
Range(f) == {f[i] : i \in DOMAIN f}
MinOf(S) == CHOOSE x \in S : \A y \in S : x <= y
MaxOf(S) == CHOOSE x \in S : \A y \in S : x >= y

\* the branches that take the block as an append
Accepting(brs, b) ==
    {i \in 1..Len(brs) : b.block_id = brs[i].top_index + 1 /\ BranchAdd(brs[i], b).ok}

\* the branches that store an equal block at its id
Storing(brs, b) ==
    {i \in 1..Len(brs) : brs[i].top_index >= b.block_id /\ BranchBlock(brs[i], b.block_id) = b}

\* br is a proper or improper prefix of other
IsPrefix(br, other) ==
    /\ br.top_index <= other.top_index
    /\ \A i \in DOMAIN br.blocks : BranchBlock(other, i) = br.blocks[i]

\* the last call returned to its caller
Returned == last.result \notin {"Panic", "Hang"}

\* C1: when at least one branch has top_index + 1 == block.id and accepts the
\* block, add appends it to the first such branch in creation order, returns
\* Ok, creates no branch and changes no other branch (stated for the calls
\* that return).
C1_AppendToFirstAccepting ==
    (last.op = "add" /\ Returned /\ Accepting(pre, last.block) # {}) =>
        /\ last.result = "Ok"
        /\ branches = [pre EXCEPT ![MinOf(Accepting(pre, last.block))] =
                          BranchAdd(pre[MinOf(Accepting(pre, last.block))], last.block).branch]

\* C1 fails only where a branch that would accept the block is a prefix of an
\* earlier branch (the state C4 and C30 are about)
C1_HoldsWithoutPrefixBranches ==
    (/\ last.op = "add"
     /\ Returned
     /\ Accepting(pre, last.block) # {}
     /\ \A i \in 1..Len(pre) : \A j \in 1..Len(pre) :
            (i # j /\ pre[j].top_index > 0) => ~IsPrefix(pre[j], pre[i])) =>
        /\ last.result = "Ok"
        /\ branches = [pre EXCEPT ![MinOf(Accepting(pre, last.block))] =
                          BranchAdd(pre[MinOf(Accepting(pre, last.block))], last.block).branch]

C3_ForkKeepsBranches ==
    (last.op = "add" /\ last.how = "fork" /\ last.result = "Ok") =>
        /\ \A i \in 1..Len(pre) : \E j \in 1..Len(branches) : branches[j] = pre[i]
        /\ \E j \in 1..Len(branches) : BranchTop(branches[j]) = last.block

\* C3 witness: a fork off the second of two branches
C3_ForkOffSecondBranch ==
    /\ last.op = "add" /\ last.how = "fork" /\ last.result = "Ok"
    /\ Len(pre) = 2 /\ last.at = 2

\* C4: when a branch with top_index >= block.id stores at block.id a block
\* equal to the added block, add returns Duplicate (stated for the calls that
\* return).
C4_StoredBlockIsDuplicate ==
    (last.op = "add" /\ Returned /\ Storing(pre, last.block) # {}) =>
        last.result = "DuplicateBlock"

\* C5: when no branch accepts the block as an append and the block validates
\* against no branch with top_index >= block.id, add returns NoValidBranch; and
\* whenever add returns an error the branches are as before the call.
C5_NoValidBranchAndErrorsKeepState ==
    /\ (/\ last.op = "add"
        /\ Accepting(pre, last.block) = {}
        /\ \A i \in 1..Len(pre) :
              pre[i].top_index >= last.block.block_id => ~Validate(last.block, pre[i]))
          => last.result = "NoValidBranches"
    /\ (last.op = "add" /\ last.result \in {"DuplicateBlock", "NoValidBranches", "Invalid"})
          => branches = pre

\* C5, for the blocks whose id is at least 1 (id 0 is the input of C31)
C5_HoldsFromIdOne ==
    /\ (/\ last.op = "add"
        /\ last.block.block_id >= 1
        /\ Accepting(pre, last.block) = {}
        /\ \A i \in 1..Len(pre) :
              pre[i].top_index >= last.block.block_id => ~Validate(last.block, pre[i]))
          => last.result = "NoValidBranches"
    /\ (last.op = "add" /\ last.result # "Ok") => branches = pre

\* C6: top() is the highest block of the branch with the greatest top_index;
\* among several such branches the one created first is chosen.
C6_TopOfFirstLongest ==
    (last.op = "top" /\ Len(pre) > 0) =>
        LET greatest == MaxOf({pre[i].top_index : i \in 1..Len(pre)})
            first == MinOf({i \in 1..Len(pre) : pre[i].top_index = greatest})
        IN  last.block = BranchTop(pre[first])

\* C6 as the code has it: among the branches with the greatest top_index the
\* one created last is chosen
C6_TopOfLastLongest ==
    (last.op = "top" /\ Len(pre) > 0) =>
        LET greatest == MaxOf({pre[i].top_index : i \in 1..Len(pre)})
            latest == MaxOf({i \in 1..Len(pre) : pre[i].top_index = greatest})
        IN  last.block = BranchTop(pre[latest])

\* C7: prune removes exactly the branches whose top_index is below the longest
\* top_index minus 10, from memory and from disk, and keeps every other branch
\* unchanged and in order.
C7_PruneRemovesExactlyStale ==
    (last.op = "prune" /\ Len(pre) > 0) =>
        LET longest == MaxOf({pre[i].top_index : i \in 1..Len(pre)}) IN
        /\ branches = SelectSeq(pre, LAMBDA br : br.top_index + 10 >= longest)
        /\ \A i \in 1..Len(pre) :
              pre[i].name \in disk <=> pre[i].top_index + 10 >= longest

\* C7 witness: a prune that removed a branch 11 behind the longest and kept a
\* branch 10 behind it
C7_PruneRemovedAndKept ==
    /\ last.op = "prune"
    /\ \E i \in 1..Len(pre) : \E j \in 1..Len(pre) : \E l \in 1..Len(pre) :
          /\ pre[l].top_index = pre[i].top_index + 11
          /\ pre[l].top_index = pre[j].top_index + 10
          /\ pre[i] \notin Range(branches)
          /\ pre[j] \in Range(branches)
          /\ pre[l] \in Range(branches)

\* the blocks of a branch have the ids first..top_index and each is linked to
\* the one before
Contiguous(br, first) ==
    /\ br.top_index > 0 => DOMAIN br.blocks = first..br.top_index
    /\ \A i \in DOMAIN br.blocks :
          /\ br.blocks[i].block_id = i
          /\ (i + 1) \in DOMAIN br.blocks =>
                /\ br.blocks[i + 1].prev_hash = Hash(br.blocks[i])
                /\ br.blocks[i + 1].block_id = br.blocks[i].block_id + 1

\* what holds of the stored blocks: every branch is contiguous with ids
\* starting at 1 (the block 0 of Block::new is never stored, see C31)
C8_BranchesContiguousFromOne ==
    \A n \in 1..Len(branches) :
        /\ Contiguous(branches[n], 1)
        /\ branches[n].top_index = 0 => branches[n].blocks = <<>>

\* C8: after any sequence of add and prune every branch is contiguous, each
\* block's prev_hash being the hash of the block before it and its id one
\* more, with ids starting at 0.
C8_BranchesContiguousFromZero ==
    \A n \in 1..Len(branches) : Contiguous(branches[n], 0)

(***************************************************************************)
(* Properties of the wallet fold                                           *)
(***************************************************************************)
\* the ids of the transactions of a block sent by address, in fold order
SenderIds(block, address) ==
    LET ids(txs) == [i \in 1..Len(txs) |-> txs[i].id]
    IN  ids(SelectSeq(block.transfers, LAMBDA t : t.from = address))
        \o ids(SelectSeq(block.pages, LAMBDA p : p.from = address))

\* some id is not above the sender's max_id at that point of the block
Replayed(ids, max_id) ==
    \E j \in 1..Len(ids) :
        \/ ids[j] <= max_id
        \/ \E k \in 1..(j - 1) : ids[j] <= ids[k]

\* C9: the fold of a block is None whenever the block holds a Transfer or a
\* Page whose id is not above its sender's max_id at that point, an id repeated
\* in the block included, whatever the amount, cost and fee; and a fold that
\* succeeds leaves max_id at the id of the sender's last transaction.
C9_ReplayedIdRejected ==
    wallet.pc = "done" =>
        LET ids == SenderIds(wallet.block, wallet.address) IN
        /\ Replayed(ids, wallet.start.max_id) => ~wallet.result.some
        /\ (wallet.result.some /\ Len(ids) > 0) =>
              wallet.result.status.max_id = ids[Len(ids)]

\* C9 holds of the blocks in which every Page costs its sender something
C9_HoldsForPaidPages ==
    (/\ wallet.pc = "done"
     /\ \A i \in 1..Len(wallet.block.pages) :
           PageCost(wallet.block.pages[i]) + wallet.block.pages[i].fee > 0) =>
        LET ids == SenderIds(wallet.block, wallet.address) IN
        /\ Replayed(ids, wallet.start.max_id) => ~wallet.result.some
        /\ (wallet.result.some /\ Len(ids) > 0) =>
              wallet.result.status.max_id = ids[Len(ids)]

\* the status after the reward and the first j transactions of the block,
\* Transfers before Pages; None from the first failing transaction on
StatusAfter(block, address, start) ==
    LET nt == Len(block.transfers)
        n == nt + Len(block.pages)
        winner == block.raward_to = address
        st[j \in 0..n] ==
            IF j = 0
            THEN Some([start EXCEPT !.balance =
                          @ + (IF winner THEN Coins(BlockReward) ELSE 0)])
            ELSE IF ~st[j - 1].some THEN NoStatus
            ELSE IF j <= nt
            THEN TransferUpdate(block.transfers[j], address, st[j - 1].status, winner)
            ELSE PageUpdate(block.pages[j - nt], st[j - 1].status,
                            PageFromAmount(block.pages[j - nt], address), winner)
    IN  st[n]

\* C10: Block.update_wallet_status adds the block reward (10) exactly when the
\* address is reward_to, then folds each Transfer in order and then each Page
\* in order, returns None as soon as one fold returns None, and otherwise
\* returns the final status.
C10_RewardThenTransfersThenPages ==
    wallet.pc = "done" =>
        /\ wallet.result = StatusAfter(wallet.block, wallet.address, wallet.start)
        /\ (wallet.block.transfers = <<>> /\ wallet.block.pages = <<>>) =>
              wallet.result =
                  Some(WalletStatus(IF wallet.block.raward_to = wallet.address
                                    THEN BlockReward * PageChunkSize ELSE 0,
                                    wallet.start.max_id))

\* C10 witness: the fold of a block with a Transfer and a Page of the address
\* that does not win the block succeeded
C10_TransferAndPageFolded ==
    /\ wallet.pc = "done"
    /\ wallet.result.some
    /\ wallet.block.raward_to # wallet.address
    /\ Len(wallet.block.transfers) = 1 /\ Len(wallet.block.pages) = 1
    /\ wallet.block.transfers[1].from = wallet.address
    /\ wallet.block.pages[1].from = wallet.address
    /\ wallet.result.status.max_id = wallet.block.pages[1].id

\* C11 (as amended): folding the block of the scenario (Transfer of 4.0 with
\* fee 1.0 from W to O, block won by W) from the zero status gives W the
\* balance reward - 4.0 = 6.0 (W pays amount + fee and earns the fee back) and
\* max_id 1, and gives O the balance 4.0.
C11_WinnerSenderKeepsRewardMinusAmount ==
    (/\ wallet.pc = "done"
     /\ wallet.block = ScenarioBlock
     /\ wallet.start = WalletStatus(0, 0)) =>
        /\ wallet.address = 1 =>
              /\ wallet.result = Some(WalletStatus(Coins(BlockReward - ScenarioAmount), 1))
              /\ wallet.result.status.balance = Coins(6)
        /\ wallet.address = 2 =>
              wallet.result = Some(WalletStatus(Coins(ScenarioAmount), 0))

\* C11 witness: the scenario block was folded for W
C11_ScenarioFoldedForWinner ==
    /\ wallet.pc = "done"
    /\ wallet.block = ScenarioBlock
    /\ wallet.start = WalletStatus(0, 0)
    /\ wallet.address = 1
    /\ wallet.result.some

\* C11: folding the block of the scenario from the zero status gives W a
\* balance of reward + fee - 4.0 = 7.0 and O a balance of 4.0.
C11_WinnerSenderGetsSeven ==
    (/\ wallet.pc = "done"
     /\ wallet.block = ScenarioBlock
     /\ wallet.start = WalletStatus(0, 0)) =>
        /\ wallet.address = 1 =>
              /\ wallet.result.some
              /\ wallet.result.status.balance =
                    Coins(BlockReward + ScenarioFee - ScenarioAmount)
        /\ wallet.address = 2 =>
              /\ wallet.result.some
              /\ wallet.result.status.balance = Coins(ScenarioAmount)

\* the block has one Transfer and no Page, and its winner W sends to another
\* address O
WinnerSendsOnce(block) ==
    /\ Len(block.transfers) = 1
    /\ block.pages = <<>>
    /\ block.transfers[1].from = block.raward_to
    /\ block.transfers[1].to # block.raward_to

\* what C12 says of the fold and of the addresses of such a block
WinnerSenderOutcome ==
    LET t == wallet.block.transfers[1] IN
    /\ (wallet.pc = "done" /\ wallet.address = t.from) =>
          wallet.result = Some(WalletStatus(Coins(BlockReward) - t.amount, t.id))
    /\ (wallet.pc = "done" /\ wallet.address = t.to) =>
          wallet.result = Some(WalletStatus(t.amount, 0))
    /\ wallet.listed =>
          /\ Len(wallet.used) = 2
          /\ Range(wallet.used) = {t.from, t.to}

C14_NegativeOrVerifiedNonNegative ==
    tx.pc = "done" =>
        LET t == tx.transaction IN
        /\ (LessThanZero(t.header.amount) \/ LessThanZero(t.header.transaction_fee)) =>
              tx.result = "Negative"
        /\ tx.result = "Ok" =>
              /\ AtLeastZero(t.header.amount)
              /\ AtLeastZero(t.header.transaction_fee)
              /\ t.e_fits
              /\ t.signature = [signer |-> t.header.from, signed |-> t.header]

\* C14 holds of the transactions whose amount and fee are numbers
C14_HoldsForNumbers ==
    (/\ tx.pc = "done"
     /\ ~tx.transaction.header.amount.nan
     /\ ~tx.transaction.header.transaction_fee.nan) =>
        LET t == tx.transaction IN
        /\ (LessThanZero(t.header.amount) \/ LessThanZero(t.header.transaction_fee)) =>
              tx.result = "Negative"
        /\ tx.result = "Ok" =>
              /\ AtLeastZero(t.header.amount)
              /\ AtLeastZero(t.header.transaction_fee)
              /\ t.e_fits
              /\ t.signature = [signer |-> t.header.from, signed |-> t.header]

(***************************************************************************)
(* Properties of the miners                                                *)
(***************************************************************************)
\* the block miner::mine builds: no transactions, rewarded to the miner's wallet
MinedBlock == [raward_to |-> 1, transfers |-> <<>>, pages |-> <<>>]

\* the fold of the blocks 1..n of a branch mined by that wallet
RECURSIVE MinedBalance(_)
MinedBalance(n) ==
    IF n = 0 THEN WalletStatus(0, 0)
    ELSE BlockUpdateWalletStatus(MinedBlock, 1, MinedBalance(n - 1)).status

\* C13: from an empty chain, after miner::mine has mined and added n blocks
\* with no other block source, the chain has a single branch whose top has
\* block_id n - 1, and the fold of that branch for the reward address gives
\* the balance n x 10.
C13_SoloMiningBuildsChain ==
    (miner.pc # "idle" /\ miner.solo /\ miner.mine_pc = "new" /\ miner.mined >= 1) =>
        /\ status = "running"
        /\ Len(branches) = 1
        /\ BranchTop(branches[1]) # None
        /\ BranchTop(branches[1]).block_id = miner.mined - 1
        /\ MinedBalance(branches[1].top_index).balance = Coins(miner.mined * BlockReward)

\* what miner::mine does on an empty chain: the first block has id 0, and
\* chain.add of it panics; nothing is stored
C13_SoloMiningStopsAtBlockZero ==
    (miner.pc # "idle" /\ miner.solo /\ miner.mine_pc = "new" /\ miner.mined >= 1) =>
        /\ status = "panicked"
        /\ miner.mined = 1
        /\ Len(branches) = 1
        /\ branches[1].top_index = 0

\* C15: the miner thread appends its block only while the chain's top has not
\* advanced past the block's parent (the chain is empty or top.block_id + 1 ==
\* block.block_id at the moment of the append); the check and chain.add happen
\* under one lock acquisition, so no other block is added between them; and a
\* block is broadcast only when chain.add returned Ok.
C15_AppendAtopCheckedTopAndSendOnOk ==
    miner.pc # "idle" =>
        /\ miner.pc = "add" =>
              /\ lock = "miner"
              /\ StillTop(TopOf(branches), miner.block)
              /\ last.op = "top"
        /\ \A i \in 1..Len(miner.sent) : miner.sent[i] \in miner.added
        /\ \A b \in miner.added : b \in StoredBlocks

\* C15 witness: the miner thread appended a block on a top that a peer had
\* added, and broadcast it
C15_MinedBlockAppendedAndSent ==
    /\ miner.pc = "create"
    /\ Len(miner.sent) >= 1
    /\ last.op = "add" /\ last.result = "Ok" /\ last.block.pow = OwnNonce
    /\ last.block.block_id >= 2
    /\ miner.sent[Len(miner.sent)] = last.block

(***************************************************************************)
(* Properties of the network layer                                         *)
(***************************************************************************)
Connections == net.connections

\* C16: on every connection the first packet written, hence the first the
\* remote side observes, is OnConnected carrying the node's listening port; it
\* is written when the connection is created, on accept and on dial, and it is
\* the only OnConnected written to the connection.
C16_OnConnectedWrittenFirst ==
    \A k \in DOMAIN Connections :
        LET written == Connections[k].written IN
        /\ Len(written) >= 1
        /\ written[1] = OnConnected(OwnPort)
        /\ \A i \in 2..Len(written) : written[i].type # "OnConnected"

\* C16 witness: a dialled and an accepted connection, one of them written to
\* again after its OnConnected
C16_AcceptedAndDialledWrittenTo ==
    /\ \E k \in DOMAIN Connections : k \in PeerPorts
    /\ \E k \in DOMAIN Connections : k \notin PeerPorts
    /\ \E k \in DOMAIN Connections : Len(Connections[k].written) >= 2

\* the step is the message handler taking the packet at the head of the channel
Handles == net.queue # <<>> /\ net'.queue = Tail(net.queue)
Taken == Head(net.queue)

\* the connections confirmed with the public address
ConfirmedAs(conns, address) ==
    {k \in DOMAIN conns : conns[k].public_address = address}

AtMostOneConfirmedPerAddress ==
    \A address \in PeerPorts \cup {OwnPort} :
        Cardinality(ConfirmedAs(Connections, address)) <= 1

\* an OnConnected arrives whose public address is already in the open set
HandlesDuplicate ==
    /\ Handles
    /\ Taken.packet.type = "OnConnected"
    /\ Taken.packet.arg \in net.open_connections

\* the connection the packet arrived on is closed, the one that registered
\* first stays open and confirmed
DuplicateClosedFirstStays ==
    HandlesDuplicate =>
        /\ \A k \in DOMAIN net'.connections : net'.connections[k].id # Taken.id
        /\ \E k \in ConfirmedAs(Connections, Taken.packet.arg) :
              /\ k \in DOMAIN net'.connections
              /\ net'.connections[k] = Connections[k]
        /\ Taken.packet.arg \in net'.open_connections

\* C17: a node holds at most one confirmed connection per peer public address;
\* when an OnConnected arrives whose public address is already in the open
\* set, the connection it arrived on is closed, and the connection that
\* registered first stays open and confirmed.
C17_OneConfirmedPerAddressFirstStays ==
    /\ []AtMostOneConfirmedPerAddress
    /\ [][DuplicateClosedFirstStays]_vars

\* C17, where it holds: at most one connection is confirmed per public
\* address, and a duplicate OnConnected that arrives on a connection still in
\* the table and still unconfirmed closes that connection and leaves the
\* confirmed one as it was.
C17_HoldsForUnconfirmedArrival ==
    /\ []AtMostOneConfirmedPerAddress
    /\ [][(/\ HandlesDuplicate
           /\ Taken.from \in DOMAIN Connections
           /\ Connections[Taken.from].id = Taken.id
           /\ Connections[Taken.from].public_address = NoAddress)
          => DuplicateClosedFirstStays]_vars

\* the packet taken carries an address: KnownNode, or a peer's OnConnected
TakesAddress ==
    /\ Handles
    /\ Taken.packet.type \in {"KnownNode", "OnConnected"}

\* how often the packet has been written to the connection
TimesWritten(conn, packet) ==
    Cardinality({i \in 1..Len(conn.written) : conn.written[i] = packet})

\* the step writes KnownNode(address) once to every confirmed connection
\* except the one at from, and nothing else
ForwardedExceptTo(from, address) ==
    \A k \in DOMAIN net'.connections :
        /\ k \in DOMAIN Connections
        /\ net'.connections[k].written =
              IF k \in Confirmed(net'.connections) /\ k # from
              THEN Append(Connections[k].written, KnownNode(address))
              ELSE Connections[k].written

NothingWritten ==
    \A k \in DOMAIN net'.connections :
        /\ k \in DOMAIN Connections
        /\ net'.connections[k].written = Connections[k].written

ForwardsWhatItLearns ==
    TakesAddress =>
        LET address == Taken.packet.arg IN
        /\ (address \notin net.known_nodes /\ address \in net'.known_nodes)
              => ForwardedExceptTo(Taken.from, address)
        /\ address \in net.known_nodes => NothingWritten

ForwardedAtMostOnce ==
    \A k \in DOMAIN Connections : \A address \in PeerPorts \cup {OwnPort} :
        TimesWritten(Connections[k], KnownNode(address)) <= 1

\* C18: when a node learns an address it did not know, from a KnownNode packet
\* or from a peer's OnConnected, it writes KnownNode(address) to every
\* confirmed connection except the one at the address it learned it from;
\* registering an address that is already known writes nothing, so no
\* connection is sent a given address twice.
C18_NewAddressForwardedOnceExceptOrigin ==
    /\ [][ForwardsWhatItLearns]_vars
    /\ []ForwardedAtMostOnce

\* C18 witness: an address learned from one confirmed connection has been
\* forwarded to another confirmed connection and not to its origin
C18_ForwardedToOtherPeerOnly ==
    \E k1, k2 \in Confirmed(Connections) : \E address \in net.known_nodes :
        /\ k1 # k2
        /\ address # Connections[k2].public_address
        /\ net.passed = <<>>
        /\ TimesWritten(Connections[k1], KnownNode(address)) = 1
        /\ TimesWritten(Connections[k2], KnownNode(address)) = 0

\* the packets the user packet handler was given in the step
PassedOn == net'.passed

\* an OnConnected that opens a new public address on a connection of the table
ConfirmsNew(m) ==
    /\ m.packet.type = "OnConnected"
    /\ m.packet.arg \notin net.open_connections
    /\ m.from \in DOMAIN Connections

\* C19 as the specification states it: OnConnected and KnownNode are never
\* passed to the user packet handler, every other packet exactly once.
C19_OnlyOtherPacketsPassed ==
    [][Handles =>
         PassedOn = IF Taken.packet.type \in {"OnConnected", "KnownNode"}
                    THEN <<>> ELSE <<Taken.packet>>]_vars

\* C19: KnownNode packets and duplicate OnConnected packets are never passed
\* to the user packet handler; an OnConnected that confirms a connection is
\* passed to it once, after the network layer has handled it; every other
\* received packet is passed exactly once.
C19_ConfirmingOnConnectedPassedToo ==
    [][Handles =>
         PassedOn = CASE Taken.packet.type = "KnownNode" -> <<>>
                      [] Taken.packet.type = "OnConnected" ->
                            IF ConfirmsNew(Taken) THEN <<Taken.packet>> ELSE <<>>
                      [] OTHER -> <<Taken.packet>>]_vars

\* C19 witness: the user packet handler was given the OnConnected that
\* confirmed a connection
C19_OnConnectedPassedToHandler ==
    /\ Len(net.passed) = 1
    /\ net.passed[1].type = "OnConnected"
    /\ net.passed[1].arg \in net.open_connections
    /\ \E k \in Confirmed(Connections) :
          Connections[k].public_address = net.passed[1].arg

\* the step writes the packet once to each of the connections in keys and to
\* no other, and leaves the table as it is
WrittenOnceTo(keys, packet) ==
    /\ DOMAIN net'.connections = DOMAIN Connections
    /\ \A k \in DOMAIN Connections :
          net'.connections[k] =
              IF k \in keys
              THEN [Connections[k] EXCEPT !.written = Append(@, packet)]
              ELSE Connections[k]

\* C20: send(packet) writes the packet once to every connection whose
\* public_address is known and to no connection whose handshake is still
\* unconfirmed; send_to(packet, predicate) writes it once to exactly the
\* confirmed connections whose address satisfies the predicate.
C20_SendToConfirmedOnly ==
    [][/\ net'.sends = net.sends + 1 =>
             WrittenOnceTo({k \in DOMAIN Connections :
                               Connections[k].public_address # NoAddress}, Ping)
       /\ net'.send_tos = net.send_tos + 1 =>
             WrittenOnceTo({k \in DOMAIN Connections :
                               /\ Connections[k].public_address # NoAddress
                               /\ k \in net'.to}, Ping)]_vars

\* C20 witness: of two confirmed connections and an unconfirmed one, send has
\* written to the two and send_to to the one its predicate names
C20_SentToTwoThenToOne ==
    /\ net.sends = 1 /\ net.send_tos = 1
    /\ \E k1, k2, k3 \in DOMAIN Connections :
          /\ k1 \in net.to /\ k2 \notin net.to
          /\ Connections[k1].public_address # NoAddress
          /\ Connections[k2].public_address # NoAddress
          /\ Connections[k3].public_address = NoAddress
          /\ TimesWritten(Connections[k1], Ping) = 2
          /\ TimesWritten(Connections[k2], Ping) = 1
          /\ TimesWritten(Connections[k3], Ping) = 0

\* the public addresses of the connections
PublicAddresses(keys) == {Connections[k].public_address : k \in keys}

\* the step is a call of send or send_to, by the user or inside the handler,
\* in which the write to at least one connection failed (net'.failed)
WriteFails(calls) ==
    /\ \/ "send" \in calls /\ net'.sends = net.sends + 1
       \/ "send_to" \in calls /\ net'.send_tos = net.send_tos + 1
       \/ "send_to" \in calls /\ Handles
    /\ net'.failed # {}

\* the connections the call writes to when no write fails
Targets ==
    IF net'.sends = net.sends + 1 THEN Confirmed(Connections)
    ELSE IF net'.send_tos = net.send_tos + 1
         THEN {k \in Confirmed(Connections) : k \in net'.to}
         ELSE {k \in DOMAIN net'.connections :
                  /\ net'.connections[k].public_address # NoAddress
                  /\ k # Taken.from}

\* only the failed connections are removed, their public addresses leave the
\* open set, every other target is written to, and the node goes on
OnlyFailedPeerClosed ==
    /\ net'.state = "running"
    /\ DOMAIN net'.connections = (DOMAIN Connections) \ net'.failed
    /\ \A a \in PublicAddresses(net'.failed) : a \notin net'.open_connections
    /\ \A k \in Targets \ net'.failed :
          /\ k \in DOMAIN net'.connections
          /\ Len(net'.connections[k].written) = Len(Connections[k].written) + 1

\* C21: when a write to one peer fails during send or send_to, only that
\* peer's connection is removed and its public address leaves the open set,
\* the packet is still written to every other confirmed peer, and the call
\* returns without terminating the node.
C21_FailedWriteClosesOnlyThatPeer ==
    [][WriteFails({"send", "send_to"}) => OnlyFailedPeerClosed]_vars

\* C21, where it holds: a write that fails during send
C21_HoldsForSend ==
    [][WriteFails({"send"}) =>
          /\ OnlyFailedPeerClosed
          /\ net'.open_connections =
                net.open_connections \ PublicAddresses(net'.failed)]_vars

\* a write failed during send, another peer was written to
C21_SendFailedForOnePeer ==
    /\ net.sends = 1 /\ net.send_tos = 0
    /\ net.failed # {}
    /\ net.state = "running"
    /\ \E k \in Confirmed(Connections) : TimesWritten(Connections[k], Ping) = 1

\* the packets of the connection with the id that wait in the channel
Waiting(id) ==
    LET of_id(m) == m.id = id
        messages == SelectSeq(net.queue, of_id)
    IN  [i \in 1..Len(messages) |-> messages[i].packet]

\* what the peer sent on the connection and the handler has not taken yet
NotYetTaken(conn) == SubSeq(conn.sent, conn.taken + 1, Len(conn.sent))

\* the connection the taken message arrived on is still open
TakenFromOpen ==
    /\ Handles
    /\ Taken.from \in DOMAIN Connections
    /\ Connections[Taken.from].id = Taken.id

\* C22: for each peer the packets received on its connection are delivered to
\* the handler in the order the peer sent them, none lost and none duplicated
\* while the connection is open: the handler takes the earliest packet of the
\* connection it has not yet taken, the packets waiting in the channel are the
\* rest in the order sent, and a packet that is for the user packet handler is
\* passed to it once.
C22_DeliveredInOrderSent ==
    /\ [][TakenFromOpen =>
            LET conn == Connections[Taken.from] IN
            /\ conn.taken < Len(conn.sent)
            /\ Taken.packet = conn.sent[conn.taken + 1]
            /\ Taken.packet.type = "Ping" => PassedOn = <<Taken.packet>>]_vars
    /\ [](\A k \in DOMAIN Connections :
             Waiting(Connections[k].id) = NotYetTaken(Connections[k]))

\* C22 witness: the handler has taken the two packets of one peer in the
\* order sent while a packet of another peer waits or was taken in between
C22_TwoTakenInOrder ==
    \E k1, k2 \in DOMAIN Connections :
        /\ k1 # k2
        /\ Connections[k1].peer # Connections[k2].peer
        /\ Connections[k1].taken = 2
        /\ Connections[k1].sent[2].type = "Ping"
        /\ net.passed = <<Ping>>
        /\ Len(Connections[k2].sent) >= 1

(***************************************************************************)
(* Properties of the network of three nodes                                *)
(***************************************************************************)
\* nodes i and j hold the two ends of one connection, both confirmed
Linked(i, j) ==
    \E k \in Confirmed(net.nodes[i].connections) :
    \E o \in Confirmed(net.nodes[j].connections) :
        /\ net.nodes[i].connections[k].id = net.nodes[j].connections[o].id
        /\ net.nodes[i].connections[k].public_address = j
        /\ net.nodes[j].connections[o].public_address = i

FullyConnected == \A i, j \in Nodes : i # j => Linked(i, j)

\* a node is about to dial and the model has no connection left for it
OutOfLinks ==
    \E i \in Nodes :
        /\ net.nodes[i].state = "running"
        /\ net.nodes[i].pc = "tick"
        /\ net.links + Cardinality(Dialled(net.nodes[i])) > MaxLinks

\* C23: from three nodes A, B, C where B and C have registered A's address,
\* under fair scheduling, the network eventually reaches and stays in a state
\* where every pair of nodes is connected by a live connection confirmed at
\* both ends (in behaviours that stay within the connections of the model).
C23_EventuallyFullyConnected == <>OutOfLinks \/ <>[]FullyConnected

\* a node is about to dial an address to which it has a connection whose
\* handshake is pending
AboutToRedial ==
    \E i \in Nodes :
        /\ net.nodes[i].pc = "tick"
        /\ Dialled(net.nodes[i]) \cap DOMAIN net.nodes[i].connections # {}

\* C23, where it holds: in the behaviours in which no node dials an address a
\* second time while the first handshake is pending
C23_HoldsWithoutRedial ==
    <>OutOfLinks \/ <>AboutToRedial \/ <>[]FullyConnected

\* the three nodes are fully connected by three connections, none was dropped
C23_ConnectedByThreeLinks ==
    /\ FullyConnected
    /\ net.links = 3
    /\ \A i \in Nodes : net.nodes[i].reset = {} /\ net.nodes[i].queue = <<>>

(***************************************************************************)
(* Properties of the shutdown                                              *)
(***************************************************************************)
\* C24: after a NetworkConnection is dropped, the listener thread and the
\* message handler thread both eventually terminate, whatever packets are
\* queued and whatever connections arrive concurrently; a connection accepted
\* after the flag is set is not registered, and no packet queued behind the
\* Shutdown message is handled.
C24_ThreadsTerminateAfterDrop ==
    /\ (net.drop # "alive") ~> (net.listener \in Stopped /\ net.handler \in Stopped)
    /\ [](\A c \in net.registered : ~c.after)
    /\ [](\A m \in net.handled : ~m.behind)

\* C24 witness: the drop is complete, both threads have ended, a peer's
\* connection that came after the flag was left unregistered and a packet
\* behind the Shutdown message was left on the channel
C24_DroppedWithPacketLeftBehind ==
    /\ net.drop = "done"
    /\ net.listener = "done" /\ net.handler = "done"
    /\ net.handled # {}
    /\ \E i \in 1..Len(net.queue) : net.queue[i].behind
    /\ net.registered # {}
    /\ net.dials > Cardinality(net.registered)

(***************************************************************************)
(* The service: the message handler with the node's packet handler, and    *)
(* the miner thread, sharing the node (chain) mutex and the                *)
(* ConnectionManager mutex                                                 *)
(***************************************************************************)
\* the highest block id peers offer and the miner finds a nonce for
ServiceMaxId == 3
\* peers offer no second block for an id below or at this one
ServiceForkId == 0
ServiceBranches == 2
\* packets the message handler takes
MaxHandled == 3

\* Packet::OnConnected and Packet::Block(block, data) as the handler gets them
OnConnectedPacket == [kind |-> "OnConnected", block |-> None]
BlockPacket(b) == [kind |-> "Block", block |-> b]

\* mutant: the top block goes to every connected peer
ToEveryPeer(peers, from) == peers

\* manager.send_to(.., |addr| addr == from): the peers the predicate selects
ToSender(peers, from) == {p \in peers : p = from}

\* the streams after one packet has been written to each of the targets
WrittenTo(written, targets, packet) ==
    [p \in DOMAIN written |-> IF p \in targets THEN Append(written[p], packet)
                                                ELSE written[p]]

\* mutant: the proof of work of the returned block is not looked at
PowIgnored(block) == TRUE

\* mine_next_block lines 31-33: block.is_pow_valid()? == Ok
PowChecked(block) == PowValid(block)

\* the "top advanced" predicate of the nonce search
TopAdvanced(brs, block) ==
    TopOf(brs) # None /\ TopOf(brs).block_id + 1 # block.block_id

InitService ==
    /\ branches = <<>>
    /\ disk = {}
    /\ status = "running"
    /\ pre = <<>>
    /\ last = Op("new", None, "Done", "new", 0)
    /\ wallet = Idle
    /\ tx = Idle
    /\ lock = "free"
    /\ miner = [pc |-> "create", block |-> None, sent |-> <<>>, added |-> {},
                abandoned |-> FALSE]
    /\ net = [manager |-> "free", pc |-> "recv", from |-> NoAddress,
              packet |-> OnConnectedPacket, out |-> None, to |-> {},
              peers |-> {}, written |-> [p \in PeerPorts |-> <<>>],
              handled |-> 0, should_shutdown |-> FALSE]

\* start_message_handler lines 157-167: a packet is taken from the channel
\* and the ConnectionManager is locked for its handling; the network layer
\* has confirmed the connection of an OnConnected before on_packet
HandlerTakes ==
    /\ net.pc = "recv"
    /\ net.manager = "free"
    /\ net.handled < MaxHandled
    /\ \E from \in PeerPorts :
       \E packet \in {OnConnectedPacket}
                     \cup {BlockPacket(b) : b \in LinkedBlocks(ServiceMaxId, ServiceForkId)} :
          /\ packet.kind # "OnConnected" => from \in net.peers
          /\ net' = [net EXCEPT !.manager = "handler", !.pc = "node",
                                !.from = from, !.packet = packet,
                                !.peers = IF packet.kind = "OnConnected"
                                          THEN @ \cup {from} ELSE @,
                                !.handled = @ + 1]
    /\ UNCHANGED <<chain_vars, wallet_vars, miner_vars>>

\* NodePacketHandler::handle line 38: self.node.lock()
HandleLocksNode ==
    /\ net.pc = "node"
    /\ lock = "free"
    /\ lock' = "handler"
    /\ net' = [net EXCEPT !.pc = "handle"]
    /\ UNCHANGED <<chain_vars, wallet_vars, miner>>

\* handle lines 39-71 up to the write: the arm of the packet.  The guard of
\* line 38 and the ConnectionManager lock are held until handle returns.
HandleArm ==
    /\ net.pc = "handle"
    /\ IF net.packet.kind = "OnConnected"
       THEN /\ Top
            /\ IF last'.block # None
               THEN /\ net' = [net EXCEPT !.pc = "send", !.out = last'.block,
                                          !.to = ToSender(net.peers, net.from)]
                    /\ UNCHANGED lock
               ELSE /\ net' = [net EXCEPT !.pc = "recv", !.manager = "free"]
                    /\ lock' = "free"
       ELSE \* Node::handle_block: chain.add, an accepted block is passed on
            \* to the peers it did not come from
            /\ Add(net.packet.block, ServiceBranches)
            /\ IF last'.result = "Ok"
               THEN /\ net' = [net EXCEPT !.pc = "send", !.out = net.packet.block,
                                          !.to = net.peers \ {net.from}]
                    /\ UNCHANGED lock
               ELSE IF status' = "hung"
               THEN \* chain.add never returns: both locks stay held
                    /\ net' = [net EXCEPT !.pc = "hung"]
                    /\ UNCHANGED lock
               ELSE /\ net' = [net EXCEPT !.manager = "free",
                                          !.pc = IF status' = "running" THEN "recv"
                                                                        ELSE "panicked"]
                    /\ lock' = "free"
    /\ UNCHANGED <<wallet_vars, miner>>

\* handle lines 48-49 (and the rebroadcast of handle_block): the write, then
\* handle returns and both locks are released
HandleSends ==
    /\ net.pc = "send"
    /\ net' = [net EXCEPT !.pc = "recv", !.manager = "free",
                          !.written = WrittenTo(@, net.to, BlockPacket(net.out)),
                          !.out = None, !.to = {}]
    /\ lock' = "free"
    /\ UNCHANGED <<chain_vars, wallet_vars, miner>>

\* start_message_handler lines 169-174: Message::Shutdown ends the thread
HandlerShutdown ==
    /\ net.pc = "recv"
    /\ net.should_shutdown
    /\ net' = [net EXCEPT !.pc = "done"]
    /\ UNCHANGED <<chain_vars, wallet_vars, miner_vars>>

\* the shutdown flag is set
ShouldShutdown ==
    /\ ~net.should_shutdown
    /\ net' = [net EXCEPT !.should_shutdown = TRUE]
    /\ UNCHANGED <<chain_vars, wallet_vars, miner_vars>>

\* mine_next_block lines 22-27: the next block, created under the lock
MineNextBlockNew ==
    /\ miner.pc = "create"
    /\ lock = "free"
    /\ Top
    /\ miner' = [miner EXCEPT !.pc = "search", !.block = BlockNew(last'.block),
                              !.abandoned = FALSE]
    /\ UNCHANGED <<lock, wallet_vars, net>>

\* line 30, miner::mine_block_unless_found at a checkpoint that ends the
\* search: given up when the top advanced or the flag is set, else a nonce
\* with a valid proof of work is found
MineBlockUnlessFound ==
    /\ miner.pc = "search"
    /\ lock = "free"
    /\ IF TopAdvanced(branches, miner.block) \/ net.should_shutdown
       THEN miner' = [miner EXCEPT !.pc = "mined", !.abandoned = TRUE]
       ELSE /\ miner.block.block_id <= ServiceMaxId
            /\ miner' = [miner EXCEPT !.pc = "mined", !.block = MineBlock(@)]
    /\ UNCHANGED <<chain_vars, lock, wallet_vars, net>>

\* lines 31-33: a block without a valid proof of work is dropped
MineNextBlockPow ==
    /\ miner.pc = "mined"
    /\ miner' = [miner EXCEPT !.pc = IF PowChecked(miner.block) THEN "lock" ELSE "loop"]
    /\ UNCHANGED <<chain_vars, lock, wallet_vars, net>>

\* lines 36-39: the lock is taken, the guard lives to the end of the function
MineNextBlockTop ==
    /\ miner.pc = "lock"
    /\ lock = "free"
    /\ Top
    /\ IF StillTop(last'.block, miner.block)
       THEN /\ lock' = "miner"
            /\ miner' = [miner EXCEPT !.pc = "add"]
       ELSE /\ lock' = "free"
            /\ miner' = [miner EXCEPT !.pc = "loop"]
    /\ UNCHANGED <<wallet_vars, net>>

\* line 41: chain.add(&block)
MineNextBlockAdd ==
    /\ miner.pc = "add"
    /\ Add(miner.block, ServiceBranches)
    /\ IF last'.result = "Ok"
       THEN /\ miner' = [miner EXCEPT !.pc = "send", !.added = @ \cup {miner.block}]
            /\ UNCHANGED lock
       ELSE IF status' = "hung"
       THEN \* chain.add never returns: the lock stays held
            /\ miner' = [miner EXCEPT !.pc = "hung"]
            /\ UNCHANGED lock
       ELSE /\ miner' = [miner EXCEPT !.pc = IF status' = "running" THEN "loop"
                                                                  ELSE "panicked"]
            /\ lock' = "free"
    /\ UNCHANGED <<wallet_vars, net>>

\* line 49: manager().send(Packet::Block(block)) under the ConnectionManager
\* lock, then the function returns and the guard of line 36 is dropped
MineNextBlockSend ==
    /\ miner.pc = "send"
    /\ net.manager = "free"
    /\ net' = [net EXCEPT !.written = WrittenTo(@, net.peers, BlockPacket(miner.block))]
    /\ miner' = [miner EXCEPT !.pc = "loop", !.sent = Append(@, miner.block)]
    /\ lock' = "free"
    /\ UNCHANGED <<chain_vars, wallet_vars>>

\* start_miner_thread lines 68-71: the flag is read under the lock
StartMinerThreadLoop ==
    /\ miner.pc = "loop"
    /\ lock = "free"
    /\ miner' = [miner EXCEPT !.pc = IF net.should_shutdown THEN "done" ELSE "create",
                              !.block = None, !.abandoned = FALSE]
    /\ UNCHANGED <<chain_vars, lock, wallet_vars, net>>

\* the statements of the message-handler thread
ServiceHandler == HandlerTakes \/ HandleLocksNode \/ HandleArm \/ HandleSends \/ HandlerShutdown

\* the statements of the miner thread
ServiceMiner ==
    \/ MineNextBlockNew
    \/ MineBlockUnlessFound
    \/ MineNextBlockPow
    \/ MineNextBlockTop
    \/ MineNextBlockAdd
    \/ MineNextBlockSend
    \/ StartMinerThreadLoop

NextService ==
    \/ HandlerTakes
    \/ HandleLocksNode
    \/ HandleArm
    \/ HandleSends
    \/ HandlerShutdown
    \/ ShouldShutdown
    \/ MineNextBlockNew
    \/ MineBlockUnlessFound
    \/ MineNextBlockPow
    \/ MineNextBlockTop
    \/ MineNextBlockAdd
    \/ MineNextBlockSend
    \/ StartMinerThreadLoop

\* both threads are scheduled
FairService == WF_vars(ServiceHandler) /\ WF_vars(ServiceMiner)

SpecService == InitService /\ [][NextService]_vars /\ FairService

(***************************************************************************)
(* Properties of the service                                               *)
(***************************************************************************)
\* the handler leaves the arm of an OnConnected packet
HandlesOnConnected ==
    net.pc = "handle" /\ net.packet.kind = "OnConnected" /\ net'.pc # "handle"

\* the handler writes the answer to an OnConnected packet
AnswersOnConnected ==
    net.pc = "send" /\ net.packet.kind = "OnConnected" /\ net'.pc # "send"

\* Block(top) is about to be written to the sender alone when there is a top,
\* nothing is written when there is none
TopForSenderOnly ==
    IF TopOf(branches) # None
    THEN /\ net'.pc = "send"
         /\ net'.out = TopOf(branches)
         /\ net'.to = {net.from}
         /\ net'.written = net.written
    ELSE /\ net'.pc = "recv"
         /\ net'.written = net.written

\* the packet held for the sender is appended to its stream, no other stream changes
WrittenToSenderOnly ==
    /\ net'.written[net.from] = Append(net.written[net.from], BlockPacket(net.out))
    /\ \A p \in PeerPorts \ {net.from} : net'.written[p] = net.written[p]

SearchesUnlocked == miner.pc = "search" => lock # "miner" /\ net.manager # "miner"

\* C26: the handler never holds the chain (Node) lock while it sends or
\* broadcasts packets, and the miner never holds the network lock while it
\* searches for a nonce.
C26_NoSendUnderNodeLockNoSearchUnderLock ==
    /\ net.pc = "send" => lock # "handler"
    /\ SearchesUnlocked

\* C26, the miner's half alone: it holds for every reachable state
C26_MinerSearchesUnlocked == SearchesUnlocked

\* C26: the miner searches while the handler is about to write a block
C26_SearchWhileHandlerSends == miner.pc = "search" /\ net.pc = "send"

\* the miner holds the node lock and waits for the ConnectionManager lock,
\* the handler holds the ConnectionManager lock and waits for the node lock
Deadlocked ==
    /\ miner.pc = "send" /\ lock = "miner"
    /\ net.pc = "node" /\ net.manager = "handler"

\* a candidate the search gave up is on its way out of mine_next_block: it is
\* not at chain.add, not at the broadcast, and it is not among the blocks
\* the miner added or sent
AbandonedDropped ==
    miner.abandoned =>
        /\ miner.pc \in {"mined", "loop"}
        /\ ~PowValid(miner.block)
        /\ miner.block \notin miner.added
        /\ \A i \in 1..Len(miner.sent) : miner.sent[i] # miner.block

\* the miner thread has left its loop
MinerLeft == miner.pc \in {"done", "panicked"}

\* C27: a candidate whose search was abandoned (top advanced or shutdown flag
\* set) is neither added to the chain nor broadcast, and once the shutdown
\* flag is set the miner thread eventually leaves its loop.
C27_AbandonedDroppedMinerLeaves ==
    /\ []AbandonedDropped
    /\ net.should_shutdown ~> MinerLeft

\* C27, the first half alone
C27_AbandonedNeverAddedNorSent == AbandonedDropped

\* C27 unless the two threads have deadlocked or chain.add never returned
C27_HoldsUnlessDeadlocked ==
    /\ []AbandonedDropped
    /\ net.should_shutdown ~> (MinerLeft \/ Deadlocked \/ status = "hung")

\* C27: the flag is set, the miner gave up its candidate and left the loop
C27_LeftAfterShutdown ==
    /\ net.should_shutdown
    /\ miner.pc = "done"
    /\ TopOf(branches) # None

\* C27: the search was given up because the top advanced
C27_GivenUpForNewTop ==
    /\ miner.abandoned
    /\ ~net.should_shutdown
    /\ miner.pc = "mined"

\* C29: no reachable state of the miner thread and the message-handler thread
\* is a deadlock: they never hold the chain/node lock and the
\* ConnectionManager lock in opposite orders, each waiting for the other's.
C29_NoDeadlock == ~Deadlocked

\* C29: the locks are taken in opposite orders without a deadlock, the
\* handler gets the node lock before the miner asks for it
C29_HandlerLockedBothMinerWaits ==
    /\ net.pc = "handle" /\ lock = "handler" /\ net.manager = "handler"
    /\ miner.pc = "lock"

(***************************************************************************)
(* connect_to_known_nodes with addresses as the strings the code compares  *)
(***************************************************************************)
\* the ports of the addresses: the node's own port and the ports 1..MaxDialPort
MaxDialPort == 1
\* addresses a node keeps in known_nodes
MaxKnown == 3

\* the listener binds 0.0.0.0: the node is reached under every address of
\* its host, the loopback address among them
Loopback == "127.0.0.1"
OwnIps == {Loopback, "10.0.0.1"}
Ips == OwnIps \cup {"10.0.0.2"}

\* format!("{}:{}", ip, port)
Address(ip, port) == [ip |-> ip, port |-> port]
DialAddresses == {Address(ip, port) : ip \in Ips, port \in OwnPort..MaxDialPort}

\* the addresses under which the node's own listener is reached
OwnAddresses(port) == {Address(ip, port) : ip \in OwnIps}

\* mutant: an address in the open set is dialled again
NotYetOpenIgnored(n, address) == TRUE

\* connect_to_known_nodes line 341, connect lines 316-321
NotYetOpen(n, address) == address \notin n.open_connections

\* connect lines 310-313: address == &format!("127.0.0.1:{}", self.port)
IsSelf(n, address) == address = Address(Loopback, n.port)

\* the addresses TcpStream::connect is called with during one
\* connect_to_known_nodes
ConnectAttempts(n) ==
    {address \in n.known_nodes : NotYetOpen(n, address) /\ ~IsSelf(n, address)}

InitConnect ==
    /\ branches = <<>>
    /\ disk = {}
    /\ status = "running"
    /\ pre = <<>>
    /\ last = Op("new", None, "Done", "new", 0)
    /\ wallet = Idle
    /\ tx = Idle
    /\ lock = "free"
    /\ miner = Idle
    /\ net = [port |-> OwnPort, pc |-> "recv", known_nodes |-> {},
              open_connections |-> {}, dialled |-> {}]

\* register_node(address, ..), by the user or for a KnownNode / OnConnected
NodeRegistered ==
    /\ net.pc = "recv"
    /\ Cardinality(net.known_nodes) < MaxKnown
    /\ \E address \in DialAddresses \ net.known_nodes :
          net' = [net EXCEPT !.known_nodes = @ \cup {address}]
    /\ UNCHANGED <<chain_vars, wallet_vars, miner_vars>>

\* handle_message_packet lines 125-126: the OnConnected of a peer, or of the
\* node itself at the other end of a connection it dialled to its own listener
AddressOpened ==
    /\ net.pc = "recv"
    /\ \E address \in (DialAddresses \ OwnAddresses(net.port))
                      \cup (net.dialled \cap OwnAddresses(net.port)) :
          /\ address \notin net.open_connections
          /\ net' = [net EXCEPT !.open_connections = @ \cup {address}]
    /\ UNCHANGED <<chain_vars, wallet_vars, miner_vars>>

\* disconnect_from: the address leaves the open set
AddressClosed ==
    /\ net.pc = "recv"
    /\ \E address \in net.open_connections :
          net' = [net EXCEPT !.open_connections = @ \ {address}]
    /\ UNCHANGED <<chain_vars, wallet_vars, miner_vars>>

\* start_message_handler lines 176-180: the timeout of the channel
TickStarts ==
    /\ net.pc = "recv"
    /\ net' = [net EXCEPT !.pc = "tick", !.dialled = {}]
    /\ UNCHANGED <<chain_vars, wallet_vars, miner_vars>>

\* connect_to_known_nodes
TickDials ==
    /\ net.pc = "tick"
    /\ net' = [net EXCEPT !.pc = "recv", !.dialled = ConnectAttempts(net)]
    /\ UNCHANGED <<chain_vars, wallet_vars, miner_vars>>

NextConnect ==
    \/ NodeRegistered
    \/ AddressOpened
    \/ AddressClosed
    \/ TickStarts
    \/ TickDials

SpecConnect == InitConnect /\ [][NextConnect]_vars

\* C28: on a handler timeout tick connect_to_known_nodes attempts a dial to
\* every address of known_nodes that is not in open_connections, except the
\* node's own listening address, and dials no address in open_connections.
C28_DialsMissingExceptOwn ==
    [][net.pc = "tick" /\ net'.pc = "recv" =>
          /\ \A address \in (net.known_nodes \ net.open_connections)
                            \ OwnAddresses(net.port) : address \in net'.dialled
          /\ net'.dialled \cap OwnAddresses(net.port) = {}
          /\ net'.dialled \cap net.open_connections = {}]_vars

\* C28 with the node's own address read as 127.0.0.1:port alone
C28_DialsMissingExceptLoopback ==
    [][net.pc = "tick" /\ net'.pc = "recv" =>
          /\ net'.dialled = (net.known_nodes \ net.open_connections)
                            \ {Address(Loopback, net.port)}
          /\ net'.dialled \cap net.open_connections = {}]_vars

\* C28: a tick has dialled a known peer and skipped an open one and the
\* loopback address of the node
C28_DialledOneSkippedTwo ==
    /\ net.pc = "recv"
    /\ \E a \in net.known_nodes \ OwnAddresses(net.port) : a \in net.dialled
    /\ \E a \in net.known_nodes \cap net.open_connections : a \notin net.dialled
    /\ Address(Loopback, net.port) \in net.known_nodes \ net.dialled

\* C28: the node has dialled its own listener
C28_DialledItself ==
    net.pc = "recv" /\ net.dialled \cap OwnAddresses(net.port) # {}

\* C30: at every reachable state no two branches of the chain hold the same
\* block sequence and no branch is a prefix of another; adding a block that is
\* already stored at its id in some branch never creates a new branch.
C30_NoBranchPrefixOfAnother ==
    /\ \A i \in 1..Len(branches) : \A j \in 1..Len(branches) :
          i # j => ~IsPrefix(branches[i], branches[j])
    /\ (last.op = "add" /\ Storing(pre, last.block) # {}) => Len(branches) = Len(pre)

\* C30: a third branch was created for a block the second branch stores
C30_BranchForStoredBlock ==
    /\ last.op = "add" /\ last.how = "fork" /\ last.result = "Ok"
    /\ Storing(pre, last.block) # {}
    /\ \E i \in 1..Len(pre) : branches[Len(branches)].blocks = pre[i].blocks

\* BlockChain::branch is called only for blocks whose block_id - 1 is not
\* below zero
ForkIdAtLeastOne == (last.op = "add" /\ last.how = "fork") => last.block.block_id >= 1

\* C31: chain.add of a block with block_id 0 that differs from the first block
\* of an existing branch either returns an error or creates a new branch that
\* holds only that block; block_id - 1 in the fork path never underflows.
C31_BlockZeroErrorOrOwnBranch ==
    /\ (last.op = "add" /\ last.block.block_id = 0 /\ Len(pre) > 0) =>
          \/ /\ last.result \in {"DuplicateBlock", "NoValidBranches", "Invalid"}
             /\ branches = pre
          \/ /\ last.result = "Ok"
             /\ Len(branches) = Len(pre) + 1
             /\ \A i \in 1..Len(pre) : branches[i] = pre[i]
             /\ {branches[Len(branches)].blocks[k] :
                    k \in DOMAIN branches[Len(branches)].blocks} = {last.block}
    /\ ForkIdAtLeastOne

\* C31, the second half alone: no block with id 0 gets to the fork path
C31_ForkPathNeverSeesBlockZero == ForkIdAtLeastOne

\* C31: add of a block with id 0 has panicked on a chain that stores a block
C31_BlockZeroPanicked ==
    /\ last.op = "add" /\ last.block.block_id = 0 /\ last.result = "Panic"
    /\ StoredBlocks # {}

\* the branches have different names, and a branch add has just created has
\* a name no branch had before
NamesUnique ==
    /\ \A i \in 1..Len(branches) : \A j \in 1..Len(branches) :
          i # j => branches[i].name # branches[j].name
    /\ (last.op = "add" /\ last.how = "fork" /\ last.result = "Ok") =>
          branches[Len(branches)].name \notin Names(pre)
    /\ Names(branches) \subseteq disk

\* C32: generate_new_branch_name terminates in every state and returns a name
\* that no existing branch directory uses, also when the first name drawn
\* collides with an existing branch.
C32_NameGenerationTerminatesUnused ==
    /\ status # "hung"
    /\ NamesUnique

\* C32, the second half alone: a name that is returned is unused
C32_ReturnedNameUnused == NamesUnique

\* C32: the name drawn for a fork was the name of an existing branch
C32_HungOnTakenName ==
    /\ status = "hung"
    /\ last.op = "add" /\ last.how = "fork" /\ last.result = "Hang"
    /\ Len(branches) >= 1

\* open_connections is the set of public addresses of the connection table
OpenIsConfirmed ==
    net.open_connections = PublicAddresses(Confirmed(Connections))

C33_HoldsWhileRunning == Running => OpenIsConfirmed

C33_OpenedWithoutConnection ==
    /\ net.state = "panicked"
    /\ net.open_connections \ PublicAddresses(Confirmed(Connections)) # {}

\* the connections whose handshake is pending: the peer's OnConnected has
\* not been handled
Pending(conns) == DOMAIN conns \ Confirmed(conns)

\* the step is a connect_to_known_nodes
Ticks == net.pc = "tick" /\ net'.pc = "recv"

\* C34: a node never dials an address to which it has a connection whose
\* handshake is pending: a timeout tick before the peer's OnConnected has
\* been handled opens no second connection to the address and neither
\* replaces nor drops the connection entry.
C34_PendingNeverRedialled ==
    [][Ticks =>
          \A k \in Pending(Connections) :
             /\ k \in DOMAIN net'.connections
             /\ net'.connections[k] = Connections[k]]_vars

\* C34 for the connections the node accepted: a tick leaves them alone
C34_AcceptedPendingKept ==
    [][Ticks =>
          \A k \in Pending(Connections) \ net.known_nodes :
             /\ k \in DOMAIN net'.connections
             /\ net'.connections[k] = Connections[k]]_vars

\* C34: the only entry of the table is the second connection to a dialled
\* address, the first was replaced
C34_SecondConnectionInPlace ==
    /\ Cardinality(DOMAIN Connections) = 1
    /\ net.passed = <<>>
    /\ \E k \in Pending(Connections) \cap net.known_nodes :
          /\ Connections[k].id = 2
          /\ net.next_conn = 3

====
